---- MODULE Spec2Model ----
(***************************************************************************)
(* State-machine model of the core of padwa: the LLM handler's retry loop, *)
(* the batch processor, the recursive summarizer with the semantic         *)
(* clusterer, and the act comparison service.                              *)
(*                                                                         *)
(* The four components are independent; each has its own specification     *)
(* (SpecInvoke, SpecBatch, SpecSummarizer, SpecCompare) over the shared    *)
(* variable list.  A specification leaves the variables of the other       *)
(* components at their idle values.                                        *)
(***************************************************************************)
EXTENDS Integers, Sequences, FiniteSets, TLC

VARIABLES
    \* ---- LLMHandler (llm_handler.py) ----
    chains,          \* self.chains: the response classes that have a cached chain
    model_class,     \* argument of the running invoke
    max_retries,     \* argument of the running invoke
    retries,         \* local of invoke
    last_exception,  \* local of invoke
    attempts,        \* number of chain.invoke calls made by the running invoke
    sleeps,          \* number of time.sleep(delay_seconds) calls made by it
    outcomes,        \* what chain.invoke / model_validate did at each attempt
    invPc,           \* position / result of the running invoke
    \* ---- BatchProcessor (batch_processor.py) and LLMHandler.bulk_invoke ----
    executor,        \* self.executor: "None" or "pool"
    items,           \* items_with_ids: identifier -> TRUE iff process_func raises on it
    futures,         \* identifier -> "none" | "pending" | "ok" | "exc"
    results,         \* the dict built by process_batch: identifier -> "unset" | "ok"
    bpPc,            \* position / result of process_batch
    bulkRet,         \* what bulk_invoke returned: "pending" | "dict" | "None"
    inWith,          \* the caller is inside a `with BatchProcessor(...)` block
    poolsCreated,    \* number of ThreadPoolExecutor objects this processor has created
    tasks,           \* the tasks handed to the pool by direct submit calls: "pending" | "done"
    bpCall,          \* the last method called on the processor and how it ended
    apiCalls,        \* number of direct method calls so far
    \* ---- LLMRecursiveSummarizer.summarize and its caller ----
    chunks,          \* argument of summarize: the fragments [text, embedding]
    reference_id,    \* argument of summarize: the id of the entity the fragments belong to
    asked,           \* the number of clusters the generator asked the clusterer for last
    max_clusters_per_level,  \* argument of summarize
    driver,          \* who resumes the generator: "unmodified" | "service"
    level,           \* local of summarize
    yielded,         \* the list the generator is suspended on (or yielded last)
    yields,          \* number of yields so far
    sumResult,       \* return value of the generator: <<>> for None, <<node>> for a node
    sumPc,           \* "start" | "suspended" | "returned" | "raised"
    clusterRows,     \* the cluster table written by ActChunkClusterRepository.bulk_create
    sent,            \* the list the last gen.send(...) passed in
    history,         \* every list yielded so far, in order
    clusterings,     \* number of semantic_clusterer.cluster calls made by the generator
    llmBatches,      \* number of bulk_invoke calls made by the generator
    requested,       \* the groups (positions) the last level built asked a summary for
    bulkCreates,     \* number of bulk_create calls made by the service
    actRow,          \* the act row [summary, flag] as stored
    actBefore,       \* the act row as generate_act_summary loaded it
    genReturn,       \* generate_act_summary: "idle" | "running" | "None" | "dto"
    \* ---- summarize with max_clusters_per_level = 8, node counts only ----
    lvFragments,     \* len(chunks)
    lvLevel,         \* local `level` of summarize
    lvCounts,        \* the length of every list yielded so far, in order
    lvPc,            \* "start" | "suspended" | "returned"
    \* ---- ActComparisonsService and the tables it reads and writes ----
    actChunks,       \* act_chunk table: rows [id, reference_id, text, embedding], id = position
    links,           \* act_change_link table: pairs <<changing_act_id, changed_act_id>>
    analysisRows,    \* act_change_analysis table, id = position
    cmpArgs,         \* arguments of the last compare_acts call
    cmpReturn,       \* the list it returned
    cmpPc,           \* "idle" before the first call, then "returned"
    cmpCalls,        \* number of compare_acts calls so far
    analyzeRuns,     \* number of _analyze_changes executions so far
    rowsBefore,      \* analysisRows as the last call found it
    runsBefore,      \* analyzeRuns as the last call found it
    analyzed,        \* the pairs whose analysis had been completed before the last call
    \* ---- two compare_acts calls for one act pair running in two threads ----
    thPc,            \* per thread: "idle" | "checked" | "returned"
    thSeen,          \* per thread: the existing_analysis its get_by_act_pair returned
    thReturn,        \* per thread: the list its call returned
    \* ---- ActChangeImpactService and the tables it reads and writes ----
    docChunks,       \* doc_chunk table: rows [id, text, embedding], id = position
    impactRows,      \* act_change_impact_analysis table: the set of its rows, ids left out
    impArgs,         \* arguments of the last analyze_impact call
    impPc,           \* "idle" before the first call, then "returned" or "raised"
    impReturn,       \* the list the last call returned
    impCalls,        \* number of analyze_impact calls so far
    impRequests,     \* the keys of the LLM requests the last call dispatched
    impResponses,    \* what invoke did for each of them: status "ok" with a response, or "exc"
    impSearches,     \* the act fragment ids the last call ran get_top_n_similar for
    impRowsBefore,   \* impactRows as the last call found it
    impReturnBefore, \* what the call before the last one returned
    \* ---- EmbeddingSemanticClusterer.cluster called on its own ----
    clItems,         \* the chunks argument: a list of [text, embedding]
    clArg,           \* the num_clusters argument
    clBefore,        \* the chunks argument as it was when cluster was called
    clNumClusters,   \* self.num_clusters
    clPath,          \* the branch cluster took: "none", "empty", "split" or "kmeans"
    clResult,        \* the member positions of each returned cluster object
    clPc             \* "idle", then "returned"

invokeVars == <<chains, model_class, max_retries, retries, last_exception,
                attempts, sleeps, outcomes, invPc>>
batchVars == <<executor, items, futures, results, bpPc, bulkRet,
               inWith, poolsCreated, tasks, bpCall, apiCalls>>
sumGenVars == <<chunks, reference_id, asked, max_clusters_per_level, driver, level, yielded, yields,
             sumResult, sumPc, clusterRows, sent, history, clusterings, llmBatches,
             requested, bulkCreates, actRow, actBefore, genReturn>>
lvVars == <<lvFragments, lvLevel, lvCounts, lvPc>>
sumVars == <<sumGenVars, lvVars>>
raceVars == <<thPc, thSeen, thReturn>>
cmpVars == <<actChunks, links, analysisRows, cmpArgs, cmpReturn, cmpPc, cmpCalls,
             analyzeRuns, rowsBefore, runsBefore, analyzed, raceVars>>
impVars == <<docChunks, impactRows, impArgs, impPc, impReturn, impCalls, impRequests,
             impResponses, impSearches, impRowsBefore, impReturnBefore>>
clVars == <<clItems, clArg, clBefore, clNumClusters, clPath, clResult, clPc>>
vars == <<invokeVars, batchVars, sumVars, cmpVars, impVars, clVars>>

(***************************************************************************)
(* Bounds of the model.                                                    *)
(***************************************************************************)
MaxRetriesArg == 3      \* invoke is explored for max_retries in 1..MaxRetriesArg
MaxItems == 3           \* a batch has 1..MaxItems items
MaxFragments == 4       \* summarize is given 0..MaxFragments fragments
MaxClustersArg == 4     \* and max_clusters_per_level in 1..MaxClustersArg
MaxChunks == 2          \* an act has 0..MaxChunks fragments
MaxCalls == 2           \* compare_acts is called at most MaxCalls times
MaxDocChunks == 6       \* the doc_chunk table has 0..MaxDocChunks rows
MaxImpactCalls == 2     \* analyze_impact is called at most MaxImpactCalls times
MaxItemsArg == 5        \* cluster is given 0..MaxItemsArg items
MaxNumClusters == 8     \* and num_clusters in 1..MaxNumClusters
MaxApiCalls == 5        \* a BatchProcessor gets at most MaxApiCalls method calls
MaxSubmits == 2         \* of which at most MaxSubmits are submit calls
MaxInputFragments == 12 \* the level counts are explored for 0..MaxInputFragments fragments

(***************************************************************************)
(* LLMHandler.invoke  (llm_handler.py)                                     *)
(***************************************************************************)
\* _prompt_mapping: the response classes a chain can be built for
PromptMapping == {"ActClusterSummaryResponse", "DocSummaryResponse", "ImpactAssessmentResponse"}

\* What one pass through the try block can do:
\*   "ok"      chain.invoke returns and model_validate accepts the result
\*   "parse"   chain.invoke raises OutputParserException
\*   "invalid" chain.invoke returns, model_validate raises (pydantic ValidationError)
\*   "other"   chain.invoke raises any other exception
AttemptOutcomes == {"ok", "parse", "invalid", "other"}

InvokeTerminal == {"returned", "raised_parse", "raised_validation", "raised_other"}

\* _create_chain: the chain of a class is built once and cached
CreateChain(cached, mc) == cached \cup {mc}

\* `while retries < max_retries`
LoopContinues(r, m) == r < m

\* `retries += 1` in the OutputParserException handler
NextRetriesMut(r) == r + 2
NextRetries(r) == r + 1

\* `if retries >= max_retries: raise last_exception`
RetriesExhausted(r, m) == r >= m

\* which handler an outcome of the try block reaches:
\* `except OutputParserException` ("retry") or `except Exception` ("reraise")
HandlerOfMut(o) == IF o = "ok" THEN "return" ELSE "retry"
HandlerOf(o) ==
    CASE o = "ok" -> "return"
      [] o = "parse" -> "retry"
      [] OTHER -> "reraise"

\* invoke is called: the chain is created or taken from the cache, the locals are set
InvokeCall(mc, mr) ==
    /\ invPc \in {"idle"} \cup InvokeTerminal
    /\ chains' = CreateChain(chains, mc)
    /\ model_class' = mc
    /\ max_retries' = mr
    /\ retries' = 0
    /\ last_exception' = "None"
    /\ attempts' = 0
    /\ sleeps' = 0
    /\ outcomes' = <<>>
    /\ invPc' = "loop"
    /\ UNCHANGED <<batchVars, sumVars, cmpVars, impVars, clVars>>

\* one iteration of the while loop: the try block and the handler it ends in
InvokeAttempt(o) ==
    /\ invPc = "loop"
    /\ LoopContinues(retries, max_retries)
    /\ attempts' = attempts + 1
    /\ outcomes' = Append(outcomes, o)
    /\ CASE HandlerOf(o) = "return" ->
              /\ invPc' = "returned"
              /\ UNCHANGED <<retries, last_exception, sleeps>>
         [] HandlerOf(o) = "retry" ->
              /\ last_exception' = "OutputParserException"
              /\ retries' = NextRetries(retries)
              /\ IF RetriesExhausted(retries', max_retries)
                    THEN invPc' = "raised_parse" /\ sleeps' = sleeps
                    ELSE invPc' = "loop" /\ sleeps' = sleeps + 1
         [] OTHER ->
              /\ invPc' = IF o = "invalid" THEN "raised_validation" ELSE "raised_other"
              /\ UNCHANGED <<retries, last_exception, sleeps>>
    /\ UNCHANGED <<chains, model_class, max_retries, batchVars, sumVars, cmpVars, impVars, clVars>>

InvokeIdle ==
    /\ chains = {}
    /\ model_class = "None"
    /\ max_retries = 0
    /\ retries = 0
    /\ last_exception = "None"
    /\ attempts = 0
    /\ sleeps = 0
    /\ outcomes = <<>>
    /\ invPc = "idle"

InvokeNext ==
    \/ \E mc \in PromptMapping, mr \in 1..MaxRetriesArg : InvokeCall(mc, mr)
    \/ \E o \in AttemptOutcomes : InvokeAttempt(o)

(***************************************************************************)
(* BatchProcessor  (batch_processor.py)  driven by LLMHandler.bulk_invoke  *)
(***************************************************************************)
Identifiers == 1..MaxItems

\* the identifiers of the submitted batch
Submitted == {i \in Identifiers : futures[i] # "none"}

\* a worker has run process_func on the item: the future holds a result or an exception
FutureOf(raises) == IF raises THEN "exc" ELSE "ok"

\* `results[identifier] = future.result()`: result() returns the value of a future
\* that completed normally and re-raises the exception of one that did not
FutureResult(f) == IF f = "exc" THEN "raise" ELSE "ok"

\* bulk_invoke enters `with BatchProcessor(...)` (start: the pool is created) and
\* calls process_batch, which submits one task per item
BulkInvoke(n, raising) ==
    /\ bpPc = "idle" \/ bulkRet # "pending"
    /\ executor' = "pool"
    /\ items' = [i \in Identifiers |-> i \in raising]
    /\ futures' = [i \in Identifiers |-> IF i <= n THEN "pending" ELSE "none"]
    /\ results' = [i \in Identifiers |-> "unset"]
    /\ bpPc' = "collecting"
    /\ bulkRet' = "pending"
    /\ inWith' = TRUE
    /\ poolsCreated' = 1
    /\ UNCHANGED <<tasks, bpCall, apiCalls, invokeVars, sumVars, cmpVars, impVars, clVars>>

\* a pool thread runs process_func(item) to its end
WorkerRun(i) ==
    /\ executor = "pool"
    /\ futures[i] = "pending"
    /\ futures' = [futures EXCEPT ![i] = FutureOf(items[i])]
    /\ UNCHANGED <<executor, items, results, bpPc, bulkRet, inWith, poolsCreated, tasks, bpCall,
                   apiCalls, invokeVars, sumVars, cmpVars, impVars, clVars>>

\* one iteration of `for future in as_completed(futures)`; the loop ends, and
\* process_batch returns, when every future has been taken
Collect(i) ==
    /\ bpPc = "collecting"
    /\ futures[i] \in {"ok", "exc"}
    /\ results[i] = "unset"
    /\ IF FutureResult(futures[i]) = "raise"
          THEN /\ bpPc' = "raised"
               /\ UNCHANGED results
          ELSE /\ results' = [results EXCEPT ![i] = "ok"]
               /\ bpPc' = IF \A j \in Submitted : results'[j] # "unset"
                             THEN "returned" ELSE "collecting"
    /\ UNCHANGED <<executor, items, futures, bulkRet, inWith, poolsCreated, tasks, bpCall,
                   apiCalls, invokeVars, sumVars, cmpVars, impVars, clVars>>

\* bulk_invoke leaves the with block: it returns the dict, or None when
\* process_batch raised; __exit__ calls stop, whose shutdown(wait=True) waits for
\* the tasks that are still running
BulkExit ==
    /\ bpPc \in {"returned", "raised"}
    /\ bulkRet = "pending"
    /\ \A i \in Submitted : futures[i] # "pending"
    /\ executor' = "None"
    /\ bulkRet' = IF bpPc = "raised" THEN "None" ELSE "dict"
    /\ inWith' = FALSE
    /\ UNCHANGED <<items, futures, results, bpPc, poolsCreated, tasks, bpCall, apiCalls,
                   invokeVars, sumVars, cmpVars, impVars, clVars>>

\* a method call on the processor: the method, self.executor and the number of
\* pools created as the call found them, and how the call ended
CallRecord(op, before, pools, outcome) ==
    [op |-> op, before |-> before, pools |-> pools, outcome |-> outcome]

BatchIdle ==
    /\ executor = "None"
    /\ items = [i \in Identifiers |-> FALSE]
    /\ futures = [i \in Identifiers |-> "none"]
    /\ results = [i \in Identifiers |-> "unset"]
    /\ bpPc = "idle"
    /\ bulkRet = "pending"
    /\ inWith = FALSE
    /\ poolsCreated = 0
    /\ tasks = <<>>
    /\ bpCall = CallRecord("none", "None", 0, "none")
    /\ apiCalls = 0

(***************************************************************************)
(* BatchProcessor driven method by method  (batch_processor.py)            *)
(***************************************************************************)
\* no task handed to the pool is still to run
Drained ==
    /\ \A i \in Identifiers : futures[i] # "pending"
    /\ \A t \in 1..Len(tasks) : tasks[t] # "pending"

\* start: `if self.executor is None: self.executor = ThreadPoolExecutor(...)`
StartCreatesPoolMut(ex) == TRUE
StartCreatesPool(ex) == ex = "None"

\* __exit__ returns False: the exception of the body is not suppressed
ExitSuppressesMut == TRUE
ExitSuppresses == FALSE

\* the calling thread is not inside process_batch
Callable == bpPc # "collecting" /\ apiCalls < MaxApiCalls

Called(op, outcome) ==
    /\ bpCall' = CallRecord(op, executor, poolsCreated, outcome)
    /\ apiCalls' = apiCalls + 1

\* start()
Start ==
    /\ Callable
    /\ executor' = "pool"
    /\ poolsCreated' = IF StartCreatesPool(executor) THEN poolsCreated + 1 ELSE poolsCreated
    /\ Called("start", "ok")
    /\ UNCHANGED <<items, futures, results, bpPc, bulkRet, inWith, tasks,
                   invokeVars, sumVars, cmpVars, impVars, clVars>>

\* stop(), called outside a with block: shutdown(wait=True) returns once the
\* pool has run every task it was given; a stopped processor is left alone
Stop ==
    /\ Callable
    /\ ~inWith
    /\ executor = "None" \/ Drained
    /\ executor' = "None"
    /\ Called("stop", "ok")
    /\ UNCHANGED <<items, futures, results, bpPc, bulkRet, inWith, poolsCreated, tasks,
                   invokeVars, sumVars, cmpVars, impVars, clVars>>

\* __enter__: start() and return self
Enter ==
    /\ Callable
    /\ ~inWith
    /\ executor' = "pool"
    /\ poolsCreated' = IF StartCreatesPool(executor) THEN poolsCreated + 1 ELSE poolsCreated
    /\ inWith' = TRUE
    /\ Called("enter", "ok")
    /\ UNCHANGED <<items, futures, results, bpPc, bulkRet, tasks,
                   invokeVars, sumVars, cmpVars, impVars, clVars>>

\* __exit__ after a body that ended normally or by an exception: stop(), return False
Exit(body_raised) ==
    /\ Callable
    /\ inWith
    /\ executor = "None" \/ Drained
    /\ executor' = "None"
    /\ inWith' = FALSE
    /\ Called(IF body_raised THEN "exit_raised" ELSE "exit",
              IF body_raised /\ ~ExitSuppresses THEN "raised" ELSE "ok")
    /\ UNCHANGED <<items, futures, results, bpPc, bulkRet, poolsCreated, tasks,
                   invokeVars, sumVars, cmpVars, impVars, clVars>>

\* submit(item)
Submit ==
    /\ Callable
    /\ Len(tasks) < MaxSubmits
    /\ IF executor = "None"
          THEN /\ Called("submit", "RuntimeError")
               /\ UNCHANGED tasks
          ELSE /\ Called("submit", "ok")
               /\ tasks' = Append(tasks, "pending")
    /\ UNCHANGED <<executor, items, futures, results, bpPc, bulkRet, inWith, poolsCreated,
                   invokeVars, sumVars, cmpVars, impVars, clVars>>

\* a pool thread runs a directly submitted task to its end
TaskRun(t) ==
    /\ executor = "pool"
    /\ t \in 1..Len(tasks)
    /\ tasks[t] = "pending"
    /\ tasks' = [tasks EXCEPT ![t] = "done"]
    /\ UNCHANGED <<executor, items, futures, results, bpPc, bulkRet, inWith, poolsCreated,
                   bpCall, apiCalls, invokeVars, sumVars, cmpVars, impVars, clVars>>

\* process_batch(items_with_ids) up to the end of the submit loop; the
\* as_completed loop is Collect
ProcessBatch(n, raising) ==
    /\ Callable
    /\ \A i \in Identifiers : futures[i] # "pending"
    /\ IF executor = "None"
          THEN /\ Called("process_batch", "RuntimeError")
               /\ UNCHANGED <<items, futures, results, bpPc>>
          ELSE /\ Called("process_batch", "ok")
               /\ items' = [i \in Identifiers |-> i \in raising]
               /\ futures' = [i \in Identifiers |-> IF i <= n THEN "pending" ELSE "none"]
               /\ results' = [i \in Identifiers |-> "unset"]
               /\ bpPc' = "collecting"
    /\ UNCHANGED <<executor, bulkRet, inWith, poolsCreated, tasks,
                   invokeVars, sumVars, cmpVars, impVars, clVars>>

ProcessorNext ==
    \/ Start
    \/ Stop
    \/ Enter
    \/ \E body_raised \in BOOLEAN : Exit(body_raised)
    \/ Submit
    \/ \E t \in 1..MaxSubmits : TaskRun(t)
    \/ \E n \in 1..MaxItems : \E raising \in SUBSET (1..n) : ProcessBatch(n, raising)
    \/ \E i \in Identifiers : WorkerRun(i)
    \/ \E i \in Identifiers : Collect(i)

BatchNext ==
    \/ \E n \in 1..MaxItems : \E raising \in SUBSET (1..n) : BulkInvoke(n, raising)
    \/ \E i \in Identifiers : WorkerRun(i)
    \/ \E i \in Identifiers : Collect(i)
    \/ BulkExit

(***************************************************************************)
(* EmbeddingSemanticClusterer.cluster  (embedding_semantic_clusterer.py)   *)
(***************************************************************************)
Min(a, b) == IF a < b THEN a ELSE b
Max(a, b) == IF a > b THEN a ELSE b

RECURSIVE Pow2(_)
Pow2(k) == IF k = 0 THEN 1 ELSE 2 * Pow2(k - 1)

\* the positions of s, in order, that satisfy the label test
MembersMut(labels, c, n) ==
    LET Test(i) == labels[i] >= c
    IN SelectSeq([i \in 1..n |-> i], Test)
Members(labels, c, n) ==
    LET Test(i) == labels[i] = c
    IN SelectSeq([i \in 1..n |-> i], Test)

\* `if not chunks: return []` and `if any(chunk.embedding is None ...): return []`
NothingToClusterMut(its) == Len(its) = 0
NothingToCluster(its) == Len(its) = 0 \/ \E i \in 1..Len(its) : ~its[i].embedding

\* `self.num_clusters = min(num_clusters, len(chunks))`
NumClustersMut(its, num_clusters) == num_clusters
NumClusters(its, num_clusters) == Min(num_clusters, Len(its))

\* The label vectors KMeans.fit_predict may return: one label in 0..K-1 per item
\* (here 1..K).  Which one it returns is decided by the embeddings; every
\* assignment is kept as a possible outcome, empty clusters included.
LabelChoices(its, num_clusters) ==
    IF NothingToCluster(its) THEN {<<>>}
    ELSE [1..Len(its) -> 1..NumClusters(its, num_clusters)]

\* cluster(chunks, num_clusters): the member positions of each cluster object.
\* The equal-split branch (`len(chunks) < self.num_clusters`) cannot be taken,
\* num_clusters having just been capped at len(chunks).
Cluster(its, num_clusters, labels) ==
    IF NothingToCluster(its) THEN <<>>
    ELSE [c \in 1..NumClusters(its, num_clusters) |-> Members(labels, c, Len(its))]

(***************************************************************************)
(* LLMRecursiveSummarizer  (llm_recursive_summarizer.py)                   *)
(***************************************************************************)
NoId == 0       \* id = None
NoText == -1    \* text = None; a text >= 0 is the summary answering the request of that key

\* ChunkClusterBase as built by the clusterer or by _create_next_level_clusters
NewCluster(ref, lvl, members, txt) ==
    [id |-> NoId, reference_id |-> ref, level |-> lvl, chunks |-> members, text |-> txt,
     embedding |-> FALSE, parent_cluster_id |-> NoId]

\* the positions (1-based, in order) of the groups a summary is requested for:
\* groups with members whose joined text is not empty (has_text[i]: item i has a text)
ValidGroups(groups, has_text) ==
    LET Test(c) == \E m \in 1..Len(groups[c]) : has_text[groups[c][m]]
    IN SelectSeq([c \in 1..Len(groups) |-> c], Test)

\* batch_args keys: str(idx) of the enumerate index (0-based) of each valid group
BatchKeys(valid) == {valid[p] - 1 : p \in 1..Len(valid)}

\* `if cluster_idx < len(valid_clusters): valid_clusters[cluster_idx]... = response`:
\* the text the valid cluster at 0-based position p ends with
AssignedText(p, valid) == IF p \in BatchKeys(valid) THEN p ELSE NoText

PositionIn(valid, c) == CHOOSE p \in 1..Len(valid) : valid[p] = c

\* _create_base_clusters: returns `clusters`, every cluster object of the clusterer
CreateBaseClusters(frs, groups, ref) ==
    LET valid == ValidGroups(groups, [i \in 1..Len(frs) |-> frs[i].text])
        IsValid(c) == \E p \in 1..Len(valid) : valid[p] = c
    IN [c \in 1..Len(groups) |->
          NewCluster(ref, 0, groups[c],
                     IF IsValid(c) THEN AssignedText(PositionIn(valid, c) - 1, valid)
                     ELSE NoText)]

BaseRequests(frs, groups) ==
    ValidGroups(groups, [i \in 1..Len(frs) |-> frs[i].text])

\* cluster_map[chunk.id] = cluster: the last cluster with that id wins
ClusterMap(prev, id) ==
    LET I == {i \in 1..Len(prev) : prev[i].id = id}
    IN CHOOSE i \in I : \A j \in I : j <= i

\* pseudo-chunks of the previous level
PseudoChunks(prev) ==
    [i \in 1..Len(prev) |->
        [id |-> prev[i].id, text |-> prev[i].text # NoText, embedding |-> prev[i].embedding]]

NextRequests(prev, groups) ==
    ValidGroups(groups, [i \in 1..Len(prev) |-> prev[ClusterMap(prev, prev[i].id)].text # NoText])

\* _create_next_level_clusters: one parent per meta-cluster with usable child text
CreateNextLevelClustersMut(prev, groups, ref, lvl) ==
    LET valid == NextRequests(prev, groups)
    IN [p \in 1..Len(valid) |-> NewCluster(ref, 0, <<>>, AssignedText(p - 1, valid))]
CreateNextLevelClusters(prev, groups, ref, lvl) ==
    LET valid == NextRequests(prev, groups)
    IN [p \in 1..Len(valid) |-> NewCluster(ref, lvl, <<>>, AssignedText(p - 1, valid))]

\* `if len(current_clusters) <= 3: 1 else max(1, max_clusters_per_level // 2**level)`
CurrentMaxClustersMut(n, mx, lvl) == Max(1, mx \div Pow2(lvl))
CurrentMaxClusters(n, mx, lvl) ==
    IF n <= 3 THEN 1 ELSE Max(1, mx \div Pow2(lvl))

(***************************************************************************)
(* The caller of the generator.  "unmodified" sends every yielded list     *)
(* back as it is; "service" is ClustersService._process_recursive_         *)
(* summarization (clusters_service.py): embeddings are added to the        *)
(* clusters that have a text, the list is persisted and the persisted      *)
(* copies are sent.                                                        *)
(***************************************************************************)
\* _add_embeddings_to_clusters
AddEmbeddingsToClusters(cl) ==
    [i \in 1..Len(cl) |->
        IF cl[i].text # NoText THEN [cl[i] EXCEPT !.embedding = TRUE] ELSE cl[i]]

\* ActChunkClusterRepository.bulk_create: the rows written, ids in insertion order
CreatedRows(cl, rows) ==
    [i \in 1..Len(cl) |-> [cl[i] EXCEPT !.id = Len(rows) + i]]

\* what bulk_create returns: domain copies of the rows; `chunks` is no column
SavedClusters(cl, rows) ==
    [i \in 1..Len(cl) |-> [CreatedRows(cl, rows)[i] EXCEPT !.chunks = <<>>]]

SentBackMut(cl, rows, drv) == cl
SentBack(cl, rows, drv) ==
    IF drv = "service" THEN SavedClusters(AddEmbeddingsToClusters(cl), rows) ELSE cl

\* _set_parent_child_relations: a cluster that has `chunks` takes the id of its
\* first child as its own parent_cluster_id and loses its chunks
SetParentChildRelations(parent_clusters) ==
    [i \in 1..Len(parent_clusters) |->
        IF parent_clusters[i].chunks # <<>>
           THEN [parent_clusters[i] EXCEPT !.parent_cluster_id = parent_clusters[i].chunks[1],
                                           !.chunks = <<>>]
           ELSE parent_clusters[i]]

\* `if saved_clusters and saved_clusters[0].level > 0: self._set_parent_child_relations(...)`
AfterSend(next_level_clusters, saved_clusters, drv) ==
    IF drv = "service" /\ saved_clusters # <<>> /\ saved_clusters[1].level > 0
       THEN SetParentChildRelations(next_level_clusters)
       ELSE next_level_clusters

\* the act row and the flag its summary carries
NoFlag == "None"
ActRow(summary, flag) == [summary |-> summary, flag |-> flag]

\* _update_entity_with_meta_summary: entity.summary = summary.text, entity.flag = summary.flag
UpdateEntityWithMetaSummary(entity, summary) ==
    ActRow(summary.text, IF summary.text # NoText THEN "llm" ELSE NoFlag)

\* generate_act_summary once _process_recursive_summarization is over:
\* `if final_summary: return self._update_entity_with_meta_summary(...)`, else None;
\* an exception of the generator is caught and None is returned
FinalSummaryGiven(pc, final_summary) == pc = "returned" /\ final_summary # <<>>

StoredAfterMut(entity, pc, final_summary) ==
    IF pc = "returned" THEN ActRow(NoText, NoFlag) ELSE entity
StoredAfter(entity, pc, final_summary) ==
    IF FinalSummaryGiven(pc, final_summary)
       THEN UpdateEntityWithMetaSummary(entity, final_summary[1])
       ELSE entity

ReturnedAfter(pc, final_summary) ==
    IF FinalSummaryGiven(pc, final_summary) THEN "dto" ELSE "None"

\* next(gen): level 0 is built and yielded; a failed bulk_invoke returns None
\* and `batch_results.items()` raises
SumStart(frs, ref, mx, drv, stored, labels, llm) ==
    /\ sumPc = "start"
    /\ chunks' = frs
    /\ reference_id' = ref
    /\ asked' = mx
    /\ max_clusters_per_level' = mx
    /\ driver' = drv
    /\ level' = 0
    /\ clusterings' = clusterings + 1
    /\ actBefore' = IF drv = "service" THEN stored ELSE actBefore
    /\ \E groups \in {Cluster(frs, mx, labels)} :
          /\ requested' = BaseRequests(frs, groups)
          /\ llmBatches' = IF BaseRequests(frs, groups) # <<>> THEN llmBatches + 1 ELSE llmBatches
          /\ IF BaseRequests(frs, groups) # <<>> /\ llm = "fail"
                THEN /\ sumPc' = "raised"
                     /\ actRow' = IF drv = "service" THEN StoredAfter(stored, "raised", <<>>) ELSE actRow
                     /\ genReturn' = IF drv = "service" THEN ReturnedAfter("raised", <<>>) ELSE genReturn
                     /\ UNCHANGED <<yielded, yields, history>>
                ELSE /\ yielded' = CreateBaseClusters(frs, groups, ref)
                     /\ history' = <<CreateBaseClusters(frs, groups, ref)>>
                     /\ yields' = 1
                     /\ sumPc' = "suspended"
                     /\ actRow' = IF drv = "service" THEN stored ELSE actRow
                     /\ genReturn' = IF drv = "service" THEN "running" ELSE genReturn
    /\ UNCHANGED <<sumResult, clusterRows, sent, bulkCreates, lvVars,
                   invokeVars, batchVars, cmpVars, impVars, clVars>>

\* `while len(current_clusters) > 1:`
ReductionGoesOnMut(current_clusters) == Len(current_clusters) > 0
ReductionGoesOn(current_clusters) == Len(current_clusters) > 1

\* gen.send(...): the generator runs from the yield it is suspended on to the
\* next yield, to its return or to an exception
SumSend(llm) ==
    /\ sumPc = "suspended"
    /\ \E current \in {SentBack(yielded, clusterRows, driver)} :
       \E mx \in {CurrentMaxClusters(Len(current), max_clusters_per_level, level + 1)} :
       \E labels \in LabelChoices(PseudoChunks(current), mx) :
       \E groups \in {Cluster(PseudoChunks(current), mx, labels)} :
          /\ sent' = current
          /\ clusterRows' = IF driver = "service"
                               THEN clusterRows \o CreatedRows(AddEmbeddingsToClusters(yielded), clusterRows)
                               ELSE clusterRows
          /\ bulkCreates' = IF driver = "service" THEN bulkCreates + 1 ELSE bulkCreates
          /\ IF ReductionGoesOn(current)
                THEN /\ level' = level + 1
                     /\ asked' = mx
                     /\ clusterings' = clusterings + 1
                     /\ requested' = NextRequests(current, groups)
                     /\ llmBatches' = IF NextRequests(current, groups) # <<>>
                                         THEN llmBatches + 1 ELSE llmBatches
                     /\ IF NextRequests(current, groups) # <<>> /\ llm = "fail"
                           THEN /\ sumPc' = "raised"
                                /\ actRow' = IF driver = "service"
                                                THEN StoredAfter(actRow, "raised", <<>>) ELSE actRow
                                /\ genReturn' = IF driver = "service"
                                                   THEN ReturnedAfter("raised", <<>>) ELSE genReturn
                                /\ UNCHANGED <<yielded, yields, history, sumResult>>
                           ELSE /\ \E next_level_clusters \in
                                      {AfterSend(CreateNextLevelClusters(current, groups, reference_id, level + 1),
                                                 current, driver)} :
                                      /\ yielded' = next_level_clusters
                                      /\ history' = Append(history, next_level_clusters)
                                /\ yields' = yields + 1
                                /\ sumPc' = "suspended"
                                /\ UNCHANGED <<sumResult, actRow, genReturn>>
                ELSE /\ \E final_summary \in {IF Len(current) = 0 THEN <<>> ELSE <<current[1]>>} :
                          /\ sumResult' = final_summary
                          /\ actRow' = IF driver = "service"
                                          THEN StoredAfter(actRow, "returned", final_summary)
                                          ELSE actRow
                          /\ genReturn' = IF driver = "service"
                                             THEN ReturnedAfter("returned", final_summary)
                                             ELSE genReturn
                     /\ sumPc' = "returned"
                     /\ UNCHANGED <<level, yielded, yields, history, clusterings, llmBatches,
                                    requested, asked>>
    /\ UNCHANGED <<chunks, reference_id, max_clusters_per_level, driver, actBefore, lvVars,
                   invokeVars, batchVars, cmpVars, impVars, clVars>>

SumIdle ==
    /\ chunks = <<>>
    /\ reference_id = NoId
    /\ asked = 0
    /\ max_clusters_per_level = 0
    /\ driver = "unmodified"
    /\ level = 0
    /\ yielded = <<>>
    /\ yields = 0
    /\ sumResult = <<>>
    /\ sumPc = "start"
    /\ clusterRows = <<>>
    /\ sent = <<>>
    /\ history = <<>>
    /\ clusterings = 0
    /\ llmBatches = 0
    /\ requested = <<>>
    /\ bulkCreates = 0
    /\ actRow = ActRow(NoText, NoFlag)
    /\ actBefore = ActRow(NoText, NoFlag)
    /\ genReturn = "idle"
    /\ lvFragments = 0
    /\ lvLevel = 0
    /\ lvCounts = <<>>
    /\ lvPc = "start"

Fragments == [text : BOOLEAN, embedding : BOOLEAN]

FragmentLists == UNION {[1..n -> Fragments] : n \in 0..MaxFragments}

\* the ids of the acts a summarization is run for
ReferenceIds == {1, 2}

\* the act table generate_act_summary reads: act 1 was never summarized, act 2
\* carries the summary of an earlier run
OldText == -2
StoredActs ==
    [id \in ReferenceIds |-> IF id = 1 THEN ActRow(NoText, NoFlag) ELSE ActRow(OldText, "old")]

\* summarize is called with some fragments and driven by one of the callers:
\* by the service for either act, or unmodified for the fragments of act 1
Summarize ==
    /\ sumPc = "start"
    /\ \E frs \in FragmentLists, mx \in 1..MaxClustersArg, drv \in {"unmodified", "service"} :
          \E ref \in IF drv = "service" THEN ReferenceIds ELSE {1} :
          \E labels \in LabelChoices(frs, mx), llm \in {"ok", "fail"} :
              SumStart(frs, ref, mx, drv, StoredActs[ref], labels, llm)

(***************************************************************************)
(* summarize with the default max_clusters_per_level, followed by the      *)
(* number of nodes of each level only.  The caller sends back a list as    *)
(* long as the one yielded.                                                *)
(***************************************************************************)
\* `max_clusters_per_level: int = 8`
DefaultMaxClusters == 8

\* a list of c items
ListOf(c) == [i \in 1..c |-> i]

\* _create_base_clusters returns every cluster object of the clusterer:
\* min(max_clusters, len(chunks)) of them, none when cluster returned []
BaseCounts(n, usable) ==
    IF n = 0 \/ ~usable THEN {0} ELSE {NumClusters(ListOf(n), DefaultMaxClusters)}

\* _create_next_level_clusters returns one parent per meta-cluster that has
\* members with a text: at most min(max_clusters, len(prev_clusters)) parents
NextLevelCountsMut(c, max_clusters) == 0..c
NextLevelCounts(c, max_clusters) == 0..NumClusters(ListOf(c), max_clusters)

\* next(gen) on n fragments, all of them with an embedding or not
LvStart(n, usable) ==
    /\ lvPc = "start"
    /\ lvFragments' = n
    /\ lvLevel' = 0
    /\ \E count \in BaseCounts(n, usable) : lvCounts' = <<count>>
    /\ lvPc' = "suspended"
    /\ UNCHANGED <<sumGenVars, invokeVars, batchVars, cmpVars, impVars, clVars>>

\* gen.send(a list as long as the one yielded)
LvSend ==
    /\ lvPc = "suspended"
    /\ \E c \in {lvCounts[Len(lvCounts)]} :
          IF ReductionGoesOn(ListOf(c))
             THEN /\ lvLevel' = lvLevel + 1
                  /\ \E count \in NextLevelCounts(c, CurrentMaxClusters(c, DefaultMaxClusters,
                                                                       lvLevel + 1)) :
                        lvCounts' = Append(lvCounts, count)
                  /\ UNCHANGED lvPc
             ELSE /\ lvPc' = "returned"
                  /\ UNCHANGED <<lvLevel, lvCounts>>
    /\ UNCHANGED <<lvFragments, sumGenVars, invokeVars, batchVars, cmpVars, impVars, clVars>>

\* summarize is called on any number of fragments
LvSummarize ==
    /\ lvPc = "start"
    /\ \E n \in 0..MaxInputFragments, usable \in BOOLEAN : LvStart(n, usable)

LvNext ==
    \/ LvSummarize
    \/ LvSend

SumNext ==
    \/ Summarize
    \/ \E llm \in {"ok", "fail"} : SumSend(llm)

(***************************************************************************)
(* ActComparisonsService  (act_comparisons_service.py)                     *)
(***************************************************************************)
\* Texts are sequences of characters, so that the article pattern is matched
\* character by character.
Digit == {"0", "1", "2", "3", "4", "5", "6", "7", "8", "9"}
Letter == {"A", "B", "C", "D", "T", "a", "e", "r", "t", "x"}
WordChar == Digit \cup Letter \cup {"_"}       \* \w
SpaceChar == {" "}                             \* \s

Art(n) == <<"A", "r", "t", ".", " ", n, ".">>
Body(l) == <<" ", "T", "e", "x", "t", " ", l>>

\* the fragments an act can consist of: a text and the embedding stored with it
Art1TextA == [text |-> Art("1") \o Body("A"), embedding |-> <<1, 0>>]
Art1TextAdot == [text |-> Art("1") \o Body("A") \o <<".">>, embedding |-> <<6, 1>>]
Art1TextB == [text |-> Art("1") \o Body("B"), embedding |-> <<5, 1>>]
Art2TextB == [text |-> Art("2") \o Body("B"), embedding |-> <<0, 1>>]
Art3TextC == [text |-> Art("3") \o Body("C"), embedding |-> <<1, 1>>]
TextD == [text |-> <<"T", "e", "x", "t", " ", "D">>, embedding |-> <<1, 2>>]

ChunkKinds == {Art1TextA, Art1TextAdot, Art1TextB, Art2TextB, Art3TextC, TextD}

Acts == {1, 2}

NoKey == <<>>     \* extract_article_number returned None
NoneText == <<>>  \* a DTO text that is None

\* the first position >= i of t that holds no character of class C
RECURSIVE RunEnd(_, _, _)
RunEnd(t, i, C) == IF i <= Len(t) /\ t[i] \in C THEN RunEnd(t, i + 1, C) ELSE i

\* regex.match(r"Art\. \d+(\w{0,4})(\s+\(\w*\)\s+)?\.", text): group(0) or None.
\* The word run after "Art. " has to start with digits and to go on for at most
\* four more word characters; then comes the dot, or the bracketed group and the dot.
ExtractArticleNumber(t) ==
    LET w == RunEnd(t, 6, WordChar)
        d == RunEnd(t, 6, Digit)
        s1 == RunEnd(t, w, SpaceChar)
        w2 == RunEnd(t, s1 + 1, WordChar)
        s2 == RunEnd(t, w2 + 1, SpaceChar)
        Is(i, c) == i <= Len(t) /\ t[i] = c
    IN IF ~(Len(t) >= 5 /\ SubSeq(t, 1, 5) = <<"A", "r", "t", ".", " ">>) THEN NoKey
       ELSE IF ~(d > 6 /\ w - d <= 4) THEN NoKey
       ELSE IF Is(w, ".") THEN SubSeq(t, 1, w)
       ELSE IF s1 > w /\ Is(s1, "(") /\ Is(w2, ")") /\ s2 > w2 + 1 /\ Is(s2, ".")
               THEN SubSeq(t, 1, s2)
       ELSE NoKey

\* `similarity = 1 - distance.cosine(u, v)` and `similarity < similarity_threshold`,
\* the threshold being num/den: for dot >= 0 the squares are compared
Dot(u, v) == u[1] * v[1] + u[2] * v[2]

SimilarityBelowMut(u, v, num, den) ==
    Dot(u, v) >= 0 /\ Dot(u, v) * Dot(u, v) * den * den > num * num * Dot(u, u) * Dot(v, v)
SimilarityBelow(u, v, num, den) ==
    \/ Dot(u, v) < 0
    \/ Dot(u, v) * Dot(u, v) * den * den < num * num * Dot(u, u) * Dot(v, v)

\* similarity_threshold: float = 0.985
SimilarityThresholdNum == 197
SimilarityThresholdDen == 200

\* ActChunkRepository.get_for_act: the rows of the act, in table order
GetForAct(act_id) ==
    LET Test(r) == r.reference_id = act_id IN SelectSeq(actChunks, Test)

\* ActChangeAnalysisRepository.get_by_act_pair
GetByActPair(rows, changing_act_id, changed_act_id) ==
    LET Test(r) == r.changing_act_id = changing_act_id /\ r.changed_act_id = changed_act_id
    IN SelectSeq(rows, Test)

(***************************************************************************)
(* chunk_by_articles (common/text_utils/text_chunking.py): the text of an  *)
(* act is cut at every match of the article pattern, the same pattern      *)
(* extract_article_number anchors at the start of a fragment.  The texts   *)
(* of the model hold no "USTAWA z dnia ..." heading, so the search of line *)
(* 16 finds nothing and the text is left whole.                            *)
(***************************************************************************)
\* str.strip()
RECURSIVE Strip(_)
Strip(t) ==
    IF t = <<>> THEN t
    ELSE IF t[1] \in SpaceChar THEN Strip(Tail(t))
    ELSE IF t[Len(t)] \in SpaceChar THEN Strip(SubSeq(t, 1, Len(t) - 1))
    ELSE t

\* regex.finditer(article_pattern, text): the starts of the matches from
\* position i on; the search goes on behind the end of a match
RECURSIVE MatchStarts(_, _)
MatchStarts(text, i) ==
    IF i > Len(text) THEN <<>>
    ELSE LET m == ExtractArticleNumber(SubSeq(text, i, Len(text)))
         IN IF m # NoKey THEN <<i>> \o MatchStarts(text, i + Len(m))
                         ELSE MatchStarts(text, i + 1)

\* `if article_text:`
NonEmptyText(article_text) == article_text # <<>>

ChunkByArticles(text) ==
    LET matches == MatchStarts(text, 1)
        article_text(i) ==
            Strip(SubSeq(text, matches[i],
                         IF i + 1 <= Len(matches) THEN matches[i + 1] - 1 ELSE Len(text)))
    IN IF matches = <<>>
          THEN IF Strip(text) # <<>> THEN <<Strip(text)>> ELSE <<>>
          ELSE SelectSeq([i \in 1..Len(matches) |-> article_text(i)], NonEmptyText)

\* changing_map / changed_map: `if art_num: map[art_num] = chunk`
MapKeysMut(chs) == {ExtractArticleNumber(chs[i].text) : i \in 1..Len(chs)}
MapKeys(chs) == {ExtractArticleNumber(chs[i].text) : i \in 1..Len(chs)} \ {NoKey}

\* map[art]: a later chunk with the same article number replaces an earlier one
MapGet(chs, art) ==
    LET I == {i \in 1..Len(chs) : ExtractArticleNumber(chs[i].text) = art}
    IN chs[CHOOSE i \in I : \A j \in I : j <= i]

\* the ActChangeAnalysis objects _analyze_changes builds
ModifiedRecord(a, b, changing_chunk, changed_chunk) ==
    [id |-> NoId, changing_act_id |-> a, changed_act_id |-> b,
     changing_chunk_id |-> changing_chunk.id, changed_chunk_id |-> changed_chunk.id,
     change_type |-> "modified"]

AppendedRecordMislabelled(a, b, changing_chunk) ==
    [id |-> NoId, changing_act_id |-> a, changed_act_id |-> b,
     changing_chunk_id |-> changing_chunk.id, changed_chunk_id |-> NoId,
     change_type |-> "removed"]
AppendedRecordMut(a, b, changing_chunk) ==
    [id |-> NoId, changing_act_id |-> a, changed_act_id |-> b,
     changing_chunk_id |-> changing_chunk.id, changed_chunk_id |-> changing_chunk.id,
     change_type |-> "appended"]
AppendedRecord(a, b, changing_chunk) ==
    [id |-> NoId, changing_act_id |-> a, changed_act_id |-> b,
     changing_chunk_id |-> changing_chunk.id, changed_chunk_id |-> NoId,
     change_type |-> "appended"]

RemovedRecord(a, b, changed_chunk) ==
    [id |-> NoId, changing_act_id |-> a, changed_act_id |-> b,
     changing_chunk_id |-> NoId, changed_chunk_id |-> changed_chunk.id,
     change_type |-> "removed"]

\* the article numbers of the three loops of _analyze_changes
ModifiedArts(changing_chunks, changed_chunks) ==
    {art \in MapKeys(changing_chunks) \cap MapKeys(changed_chunks) :
        /\ MapGet(changing_chunks, art).text # MapGet(changed_chunks, art).text
        /\ SimilarityBelow(MapGet(changing_chunks, art).embedding,
                           MapGet(changed_chunks, art).embedding,
                           SimilarityThresholdNum, SimilarityThresholdDen)}

AppendedArtsMut(changing_chunks, changed_chunks) ==
    MapKeys(changing_chunks)
AppendedArts(changing_chunks, changed_chunks) ==
    MapKeys(changing_chunks) \ MapKeys(changed_chunks)

RemovedArts(changing_chunks, changed_chunks) ==
    MapKeys(changed_chunks) \ MapKeys(changing_chunks)

\* the orders in which a set can be iterated
Orders(S) == {f \in [1..Cardinality(S) -> S] : \A i, j \in 1..Cardinality(S) : f[i] = f[j] => i = j}

\* _analyze_changes: the lists it can return.  The three loops iterate sets of
\* strings, whose order is not fixed; each order is a possible result.
AnalyzeChanges(a, b, changing_chunks, changed_chunks) ==
    {[i \in 1..Len(m) |-> ModifiedRecord(a, b, MapGet(changing_chunks, m[i]), MapGet(changed_chunks, m[i]))]
        \o [i \in 1..Len(p) |-> AppendedRecord(a, b, MapGet(changing_chunks, p[i]))]
        \o [i \in 1..Len(r) |-> RemovedRecord(a, b, MapGet(changed_chunks, r[i]))] :
     m \in Orders(ModifiedArts(changing_chunks, changed_chunks)),
     p \in Orders(AppendedArts(changing_chunks, changed_chunks)),
     r \in Orders(RemovedArts(changing_chunks, changed_chunks))}

\* BaseRepository.bulk_create (base_repository.py): the rows get the next ids.
\* session.bulk_save_objects leaves the primary keys of the objects it was
\* given unset, so the list returned to the caller carries no ids.
BulkCreateRows(rows, models) ==
    rows \o [i \in 1..Len(models) |-> [models[i] EXCEPT !.id = Len(rows) + i]]

BulkCreateReturn(rows, models) == models

\* chunk_dict.get(id) over bulk_get_by_ids
ChunkText(id) == IF id # NoId /\ id \in 1..Len(actChunks) THEN actChunks[id].text ELSE NoneText

\* _enrich_analysis_with_text
EnrichAnalysisWithText(analysis) ==
    [i \in 1..Len(analysis) |->
        [id |-> analysis[i].id,
         changing_act_id |-> analysis[i].changing_act_id,
         changed_act_id |-> analysis[i].changed_act_id,
         changing_chunk_id |-> analysis[i].changing_chunk_id,
         changed_chunk_id |-> analysis[i].changed_chunk_id,
         change_type |-> analysis[i].change_type,
         changing_chunk_text |-> ChunkText(analysis[i].changing_chunk_id),
         changed_chunk_text |-> ChunkText(analysis[i].changed_chunk_id)]]

\* `if existing_analysis:` a non-empty list is the sign of an analyzed pair
AlreadyAnalyzed(existing_analysis) == existing_analysis # <<>>

\* compare_acts(changing_act_id, changed_act_id)
CompareActs(a, b) ==
    /\ cmpCalls < MaxCalls
    /\ cmpCalls' = cmpCalls + 1
    /\ cmpArgs' = <<a, b>>
    /\ cmpPc' = "returned"
    /\ rowsBefore' = analysisRows
    /\ runsBefore' = analyzeRuns
    /\ analyzed' = analyzed \cup (IF cmpPc = "returned" THEN {cmpArgs} ELSE {})
    /\ LET existing_analysis == GetByActPair(analysisRows, a, b)
       IN IF AlreadyAnalyzed(existing_analysis)
             THEN /\ cmpReturn' = EnrichAnalysisWithText(existing_analysis)
                  /\ UNCHANGED <<analysisRows, analyzeRuns>>
             ELSE \E analysis_results \in AnalyzeChanges(a, b, GetForAct(a), GetForAct(b)) :
                  /\ analyzeRuns' = analyzeRuns + 1
                  /\ analysisRows' = BulkCreateRows(analysisRows, analysis_results)
                  /\ cmpReturn' = EnrichAnalysisWithText(
                                      BulkCreateReturn(analysisRows, analysis_results))
    /\ UNCHANGED <<actChunks, links, raceVars, invokeVars, batchVars, sumVars, impVars, clVars>>

\* the act_chunk table holding the given fragments of act 1, then those of act 2
ChunkTable(k1, k2) ==
    [i \in 1..(Len(k1) + Len(k2)) |->
        IF i <= Len(k1)
           THEN [id |-> i, reference_id |-> 1, text |-> k1[i].text, embedding |-> k1[i].embedding]
           ELSE [id |-> i, reference_id |-> 2, text |-> k2[i - Len(k1)].text,
                 embedding |-> k2[i - Len(k1)].embedding]]

KindLists == UNION {[1..n -> ChunkKinds] : n \in 0..MaxChunks}

\* act 1 is recorded as changing act 2, or no change link is recorded
LinkChoices == {{}, {<<1, 2>>}}

\* the calls explored: act 1 as the changing act, act 2 as the changed act
ComparedPairs == {<<1, 2>>}

(***************************************************************************)
(* compare_acts called from two threads for the same act pair.  Each call  *)
(* is two database transactions: the read of get_by_act_pair, then (after  *)
(* the analysis in memory) the bulk_create.  Nothing in compare_acts or in *)
(* the table (no unique constraint) serializes the two calls.              *)
(***************************************************************************)
Threads == {1, 2}

RaceIdle ==
    /\ thPc = [t \in Threads |-> "idle"]
    /\ thSeen = [t \in Threads |-> <<>>]
    /\ thReturn = [t \in Threads |-> <<>>]

\* `existing_analysis = self.act_change_analysis_repo.get_by_act_pair(...)`
RaceCheck(t, a, b) ==
    /\ thPc[t] = "idle"
    /\ thSeen' = [thSeen EXCEPT ![t] = GetByActPair(analysisRows, a, b)]
    /\ thPc' = [thPc EXCEPT ![t] = "checked"]
    /\ UNCHANGED <<thReturn, actChunks, links, analysisRows, cmpArgs, cmpReturn, cmpPc, cmpCalls,
                   analyzeRuns, rowsBefore, runsBefore, analyzed,
                   invokeVars, batchVars, sumVars, impVars, clVars>>

\* the rest of compare_acts: return what was found, or analyze, persist and return
RaceFinish(t, a, b) ==
    /\ thPc[t] = "checked"
    /\ thPc' = [thPc EXCEPT ![t] = "returned"]
    /\ IF AlreadyAnalyzed(thSeen[t])
          THEN /\ thReturn' = [thReturn EXCEPT ![t] = EnrichAnalysisWithText(thSeen[t])]
               /\ UNCHANGED <<analysisRows, analyzeRuns>>
          ELSE \E analysis_results \in AnalyzeChanges(a, b, GetForAct(a), GetForAct(b)) :
               /\ analyzeRuns' = analyzeRuns + 1
               /\ analysisRows' = BulkCreateRows(analysisRows, analysis_results)
               /\ thReturn' = [thReturn EXCEPT ![t] = EnrichAnalysisWithText(
                                   BulkCreateReturn(analysisRows, analysis_results))]
    /\ UNCHANGED <<thSeen, actChunks, links, cmpArgs, cmpReturn, cmpPc, cmpCalls,
                   rowsBefore, runsBefore, analyzed,
                   invokeVars, batchVars, sumVars, impVars, clVars>>

RaceNext ==
    \E t \in Threads, pair \in ComparedPairs :
        \/ RaceCheck(t, pair[1], pair[2])
        \/ RaceFinish(t, pair[1], pair[2])

CmpIdle ==
    /\ actChunks = <<>>
    /\ links = {}
    /\ analysisRows = <<>>
    /\ cmpArgs = <<>>
    /\ cmpReturn = <<>>
    /\ cmpPc = "idle"
    /\ cmpCalls = 0
    /\ analyzeRuns = 0
    /\ rowsBefore = <<>>
    /\ runsBefore = 0
    /\ analyzed = {}
    /\ RaceIdle

CmpNext ==
    \E pair \in ComparedPairs : CompareActs(pair[1], pair[2])

(***************************************************************************)
(* ActChangeImpactService.analyze_impact  (act_change_impact_service.py)   *)
(***************************************************************************)
\* `get_top_n_similar(chunk.embedding, n=5)`
TopN == 5

\* the embeddings a document fragment can have
DocEmbeddings == {<<1, 0>>, <<0, 1>>}

\* the doc_chunk table holding fragments with the given embeddings; the text of
\* a fragment is represented by its id
DocTable(embs) ==
    [i \in 1..Len(embs) |-> [id |-> i, text |-> i, embedding |-> embs[i]]]

\* cosine similarity of e with d1 strictly greater than with d2 (the embeddings
\* used have no negative component, so the squares are compared)
MoreSimilar(e, d1, d2) ==
    Dot(e, d1) * Dot(e, d1) * Dot(d2, d2) > Dot(e, d2) * Dot(e, d2) * Dot(d1, d1)

\* EmbeddableBaseRepository._get_top_n_similar: the entities sorted by similarity,
\* highest first (the sort is stable: equal similarities keep the table order),
\* cut after n
GetTopNSimilarMut(all_entities, embedding, n) == all_entities
GetTopNSimilar(all_entities, embedding, n) ==
    LET Before(j, i) ==
            \/ MoreSimilar(embedding, all_entities[j].embedding, all_entities[i].embedding)
            \/ /\ ~MoreSimilar(embedding, all_entities[i].embedding, all_entities[j].embedding)
               /\ j < i
        Rank(i) == Cardinality({j \in 1..Len(all_entities) : j # i /\ Before(j, i)})
    IN [r \in 1..Min(n, Len(all_entities)) |->
          all_entities[CHOOSE i \in 1..Len(all_entities) : Rank(i) = r - 1]]

\* ActChangeAnalysisRepository.get_by_act_pair_with_texts: the records of the
\* pair, each with the texts of its two fragments (outer joins: None for a null id)
GetByActPairWithTexts(rows, changing_act_id, changed_act_id) ==
    EnrichAnalysisWithText(GetByActPair(rows, changing_act_id, changed_act_id))

\* ActChangeImpactAnalysisRepository.get_by_act_pair
ImpactGetByActPair(rows, changing_act_id, changed_act_id) ==
    {r \in rows : r.changing_act_id = changing_act_id /\ r.changed_act_id = changed_act_id}

\* `chunk_id = analysis.changing_chunk_id or analysis.changed_chunk_id`
SearchedChunkId(analysis) ==
    IF analysis.changing_chunk_id # NoId THEN analysis.changing_chunk_id
    ELSE analysis.changed_chunk_id

\* the items one change record contributes: one per candidate document fragment
ItemsOf(analysis) ==
    IF analysis.change_type \in {"modified", "appended", "removed"}
       THEN LET chunk == actChunks[SearchedChunkId(analysis)]
                similar_doc_chunks == GetTopNSimilar(docChunks, chunk.embedding, TopN)
            IN [i \in 1..Len(similar_doc_chunks) |->
                  [identifier |-> <<analysis.id, similar_doc_chunks[i].id>>,
                   input_dict |-> [change_type |-> analysis.change_type,
                                   changed_text |-> analysis.changed_chunk_text,
                                   changing_text |-> analysis.changing_chunk_text,
                                   doc_text |-> similar_doc_chunks[i].text]]]
       ELSE <<>>

\* items_with_ids: the items of every change record, in order
RECURSIVE ItemsWithIds(_, _)
ItemsWithIds(analyses, n) ==
    IF n = 0 THEN <<>> ELSE ItemsWithIds(analyses, n - 1) \o ItemsOf(analyses[n])

\* the ImpactAssessmentResponse of the LLM to the request of a key: its relevancy
\* is whatever number the model reports, its justification is represented by the
\* key it answers
RelevancyBases == {-2, 0}

ImpactResponse(identifier, base) ==
    [status |-> "ok", relevancy |-> base + identifier[2], justification |-> identifier]

\* invoke raised for the request of a key (after its retries)
FailedResponse(identifier) ==
    [status |-> "exc", relevancy |-> 0, justification |-> identifier]

\* the requests that fail in one call: none of them, or one
FailingChoices(keys) == {{}} \cup {{k} : k \in keys}

\* process_batch over the items: `future.result()` re-raises the exception of a
\* failed request, and nothing catches it in analyze_impact
ProcessBatchRaises(responses) ==
    \E k \in DOMAIN responses :
        FutureResult(responses[k].status) = "raise"

\* the ActChangeImpactAnalysis built from one entry of results
ImpactRecordMut(a, b, identifier, response) ==
    [id |-> NoId, changing_act_id |-> a, changed_act_id |-> b,
     change_analysis_id |-> identifier[1], doc_chunk_id |-> identifier[2],
     relevancy |-> Max(0, Min(1, response.relevancy)),
     justification |-> response.justification]
ImpactRecord(a, b, identifier, response) ==
    [id |-> NoId, changing_act_id |-> a, changed_act_id |-> b,
     change_analysis_id |-> identifier[1], doc_chunk_id |-> identifier[2],
     relevancy |-> response.relevancy,
     justification |-> response.justification]

\* doc_chunk_dict.get(id) over bulk_get_by_ids
DocChunkText(id) == IF id \in 1..Len(docChunks) THEN docChunks[id].text ELSE NoneText

\* _enrich_analysis_with_impacts: every change record with the impacts on it
EnrichAnalysisWithImpacts(analyses, impacts) ==
    [i \in 1..Len(analyses) |->
        [id |-> analyses[i].id,
         changing_act_id |-> analyses[i].changing_act_id,
         changed_act_id |-> analyses[i].changed_act_id,
         changing_chunk_id |-> analyses[i].changing_chunk_id,
         changed_chunk_id |-> analyses[i].changed_chunk_id,
         change_type |-> analyses[i].change_type,
         changing_chunk_text |-> analyses[i].changing_chunk_text,
         changed_chunk_text |-> analyses[i].changed_chunk_text,
         impacts |-> {[id |-> m.id,
                       change_analysis_id |-> m.change_analysis_id,
                       doc_chunk_id |-> m.doc_chunk_id,
                       relevancy |-> m.relevancy,
                       justification |-> m.justification,
                       doc_chunk_text |-> DocChunkText(m.doc_chunk_id)] :
                      m \in {x \in impacts : x.change_analysis_id = analyses[i].id}}]]

\* bulk_create of the impact records: every row gets an id of its own, the
\* objects handed in keep id None (bulk_save_objects does not write the keys
\* back).  The rows are numbered here in the order of the requests; the code
\* inserts them in the order the requests completed.
BulkCreateImpacts(rows, models, identifiers) ==
    rows \cup {[m EXCEPT !.id = Cardinality(rows) +
                    (CHOOSE i \in 1..Len(identifiers) :
                        identifiers[i] = <<m.change_analysis_id, m.doc_chunk_id>>)] : m \in models}

\* `if existing_impacts:`
ImpactsExistMut(existing_impacts) == FALSE
ImpactsExist(existing_impacts) == existing_impacts # {}

\* analyze_impact(changing_act_id, changed_act_id)
AnalyzeImpact(a, b) ==
    /\ impCalls < MaxImpactCalls
    /\ impCalls' = impCalls + 1
    /\ impArgs' = <<a, b>>
    /\ impRowsBefore' = impactRows
    /\ impReturnBefore' = impReturn
    /\ \E analyses \in {GetByActPairWithTexts(analysisRows, a, b)},
          existing_impacts \in {ImpactGetByActPair(impactRows, a, b)} :
          IF analyses = <<>>
             THEN /\ impReturn' = <<>>
                  /\ impPc' = "returned"
                  /\ impRequests' = <<>>
                  /\ impResponses' = <<>>
                  /\ impSearches' = <<>>
                  /\ UNCHANGED impactRows
             ELSE IF ImpactsExist(existing_impacts)
             THEN /\ impReturn' = EnrichAnalysisWithImpacts(analyses, existing_impacts)
                  /\ impPc' = "returned"
                  /\ impRequests' = <<>>
                  /\ impResponses' = <<>>
                  /\ impSearches' = <<>>
                  /\ UNCHANGED impactRows
             ELSE \E items_with_ids \in {ItemsWithIds(analyses, Len(analyses))} :
                  \E keys \in {{items_with_ids[i].identifier : i \in 1..Len(items_with_ids)}} :
                  \E failing \in FailingChoices(keys), base \in RelevancyBases :
                  \E responses \in {[k \in keys |-> IF k \in failing THEN FailedResponse(k)
                                                    ELSE ImpactResponse(k, base)]} :
                  \E impact_analyses \in {{ImpactRecord(a, b, k, responses[k]) : k \in keys}} :
                     /\ impRequests' = [i \in 1..Len(items_with_ids) |-> items_with_ids[i].identifier]
                     /\ impResponses' = responses
                     /\ impSearches' = [i \in 1..Len(analyses) |-> SearchedChunkId(analyses[i])]
                     /\ IF ProcessBatchRaises(responses)
                           THEN /\ impPc' = "raised"
                                /\ impReturn' = <<>>
                                /\ UNCHANGED impactRows
                           ELSE /\ impPc' = "returned"
                                /\ impactRows' = BulkCreateImpacts(impactRows, impact_analyses,
                                       [i \in 1..Len(items_with_ids) |-> items_with_ids[i].identifier])
                                /\ impReturn' = EnrichAnalysisWithImpacts(analyses, impact_analyses)
    /\ UNCHANGED <<docChunks, invokeVars, batchVars, sumVars, cmpVars, clVars>>

ImpIdle ==
    /\ docChunks = <<>>
    /\ impactRows = {}
    /\ impArgs = <<>>
    /\ impPc = "idle"
    /\ impReturn = <<>>
    /\ impCalls = 0
    /\ impRequests = <<>>
    /\ impResponses = <<>>
    /\ impSearches = <<>>
    /\ impRowsBefore = {}
    /\ impReturnBefore = <<>>

\* the act pairs analyze_impact is explored on: fragments of act 1 and of act 2
ImpactScenarios ==
    {<<<<>>, <<>>>>,
     <<<<Art1TextB>>, <<Art1TextA>>>>,
     <<<<Art1TextA, Art2TextB>>, <<Art1TextA, Art3TextC>>>>}

DocTables == {DocTable(embs) : embs \in UNION {[1..n -> DocEmbeddings] : n \in 0..MaxDocChunks}}

ImpNext ==
    \E pair \in ComparedPairs : AnalyzeImpact(pair[1], pair[2])

\* `self.num_clusters = 10` in __init__
DefaultNumClusters == 10

\* _split_into_equal_chunks(items, n): np.array_split into min(n, len(items))
\* contiguous parts, the first len % n of them one item longer
SplitIntoEqualChunks(n_items, n) ==
    LET k == Min(n, n_items)
        q == n_items \div k
        r == n_items % k
    IN [g \in 1..k |->
          [j \in 1..(q + (IF g <= r THEN 1 ELSE 0)) |-> (g - 1) * q + Min(g - 1, r) + j]]

\* `[ChunkClusterBase(chunks=chunk_list) for chunk_list in chunk_lists]`: `chunks`
\* is a property over the private `_chunks`, no field, so the keyword is dropped
SplitClusters(chunk_lists) == [g \in 1..Len(chunk_lists) |-> <<>>]

\* the branch cluster takes
ClusterPath(its, num_clusters) ==
    IF NothingToCluster(its) THEN "empty"
    ELSE IF Len(its) < NumClusters(its, num_clusters) THEN "split"
    ELSE "kmeans"

\* cluster(chunks, num_clusters) called on the list clItems
ClusterCall(num_clusters, labels) ==
    /\ clPc = "idle"
    /\ clArg' = num_clusters
    /\ clBefore' = clItems
    /\ clItems' = clItems
    /\ clPath' = ClusterPath(clItems, num_clusters)
    /\ clNumClusters' = IF NothingToCluster(clItems) THEN clNumClusters
                        ELSE NumClusters(clItems, num_clusters)
    /\ clResult' = IF ClusterPath(clItems, num_clusters) = "split"
                      THEN SplitClusters(SplitIntoEqualChunks(Len(clItems),
                                                              NumClusters(clItems, num_clusters)))
                      ELSE Cluster(clItems, num_clusters, labels)
    /\ clPc' = "returned"
    /\ UNCHANGED <<invokeVars, batchVars, sumVars, cmpVars, impVars>>

ClIdle ==
    /\ clItems = <<>>
    /\ clArg = 0
    /\ clBefore = <<>>
    /\ clNumClusters = DefaultNumClusters
    /\ clPath = "none"
    /\ clResult = <<>>
    /\ clPc = "idle"

\* the lists cluster is called on: items with a text, with or without an embedding
ClItemLists == UNION {[1..n -> [text : {TRUE}, embedding : BOOLEAN]] : n \in 0..MaxItemsArg}

ClNext ==
    /\ clPc = "idle"
    /\ \E num_clusters \in 1..MaxNumClusters :
          \E labels \in LabelChoices(clItems, num_clusters) :
             ClusterCall(num_clusters, labels)

(***************************************************************************)
(* Specifications                                                          *)
(***************************************************************************)
InitInvoke == InvokeIdle /\ BatchIdle /\ SumIdle /\ CmpIdle /\ ImpIdle /\ ClIdle

SpecInvoke == InitInvoke /\ [][InvokeNext]_vars

InitBatch == InvokeIdle /\ BatchIdle /\ SumIdle /\ CmpIdle /\ ImpIdle /\ ClIdle

SpecBatch == InitBatch /\ [][BatchNext]_vars

InitProcessor == InvokeIdle /\ BatchIdle /\ SumIdle /\ CmpIdle /\ ImpIdle /\ ClIdle

SpecProcessor == InitProcessor /\ [][ProcessorNext]_vars
InitSummarizer == InvokeIdle /\ BatchIdle /\ SumIdle /\ CmpIdle /\ ImpIdle /\ ClIdle

SpecSummarizer == InitSummarizer /\ [][SumNext]_vars

InitLevels == InvokeIdle /\ BatchIdle /\ SumIdle /\ CmpIdle /\ ImpIdle /\ ClIdle

SpecLevels == InitLevels /\ [][LvNext]_vars

InitCompare ==
    /\ InvokeIdle /\ BatchIdle /\ SumIdle /\ ImpIdle /\ ClIdle
    /\ \E k1 \in KindLists, k2 \in KindLists : actChunks = ChunkTable(k1, k2)
    /\ links \in LinkChoices
    /\ analysisRows = <<>>
    /\ cmpArgs = <<>>
    /\ cmpReturn = <<>>
    /\ cmpPc = "idle"
    /\ cmpCalls = 0
    /\ analyzeRuns = 0
    /\ rowsBefore = <<>>
    /\ runsBefore = 0
    /\ analyzed = {}
    /\ RaceIdle

SpecCompare == InitCompare /\ [][CmpNext]_vars

InitRace == InitCompare

SpecRace == InitRace /\ [][RaceNext]_vars

\* the change records of the pair are those a compare_acts call left in the table
InitImpact ==
    /\ InvokeIdle /\ BatchIdle /\ SumIdle /\ ClIdle
    /\ \E sc \in ImpactScenarios : actChunks = ChunkTable(sc[1], sc[2])
    /\ links = {<<1, 2>>}
    /\ \E analysis_results \in AnalyzeChanges(1, 2, GetForAct(1), GetForAct(2)) :
          analysisRows = BulkCreateRows(<<>>, analysis_results)
    /\ cmpArgs = <<>>
    /\ cmpReturn = <<>>
    /\ cmpPc = "idle"
    /\ cmpCalls = 0
    /\ analyzeRuns = 0
    /\ rowsBefore = <<>>
    /\ runsBefore = 0
    /\ analyzed = {}
    /\ RaceIdle
    /\ docChunks \in DocTables
    /\ impactRows = {}
    /\ impArgs = <<>>
    /\ impPc = "idle"
    /\ impReturn = <<>>
    /\ impCalls = 0
    /\ impRequests = <<>>
    /\ impResponses = <<>>
    /\ impSearches = <<>>
    /\ impRowsBefore = {}
    /\ impReturnBefore = <<>>

SpecImpact == InitImpact /\ [][ImpNext]_vars

InitClusterer ==
    /\ InvokeIdle /\ BatchIdle /\ SumIdle /\ CmpIdle /\ ImpIdle
    /\ clItems \in ClItemLists
    /\ clArg = 0
    /\ clBefore = <<>>
    /\ clNumClusters = DefaultNumClusters
    /\ clPath = "none"
    /\ clResult = <<>>
    /\ clPc = "idle"

SpecClusterer == InitClusterer /\ [][ClNext]_vars

(***************************************************************************)
(* Claims                                                                  *)
(***************************************************************************)

\* ---------------------------------------------------------------- C1 ----
AllEmbedded == \A i \in 1..Len(chunks) : chunks[i].embedding

SingleBaseCluster == AllEmbedded /\ Min(max_clusters_per_level, Len(chunks)) = 1

\* C1 as stated: fed back unmodified, summarize over a list of at least one
\* fragment returns exactly one node, never None.  (Stated for fragments that
\* all carry an embedding, the inputs most favourable to the claim; the list
\* may hold any number >= 1 of them.)
C1_AlwaysOneFinalNode ==
    (driver = "unmodified" /\ sumPc = "returned" /\ Len(chunks) >= 1 /\ AllEmbedded)
        => Len(sumResult) = 1

\* C1, amended: fed back unmodified, summarize over a list of at least one
\* fragment always terminates, within two yields: it raises when a bulk LLM call
\* fails, it returns the single level-0 cluster (holding every fragment) when
\* every fragment has an embedding and min(max_clusters_per_level, len) = 1,
\* and it returns None in every other case.
C1_TerminatesOneNodeOnlyForSingleCluster ==
    (driver = "unmodified" /\ sumPc # "start" /\ Len(chunks) >= 1) =>
        /\ yields <= 2
        /\ sumPc \in {"suspended", "returned", "raised"}
        /\ sumPc = "suspended" => ENABLED SumSend("ok")
        /\ sumPc = "returned" =>
              IF SingleBaseCluster
                 THEN /\ Len(sumResult) = 1
                      /\ sumResult[1].level = 0
                      /\ sumResult[1].chunks = [i \in 1..Len(chunks) |-> i]
                 ELSE sumResult = <<>>

\* two fragments with text and embeddings, two level-0 clusters, fed back
\* unmodified: the empty level 1 has been yielded and None returned
C1_Witness ==
    /\ driver = "unmodified"
    /\ sumPc = "returned"
    /\ Len(chunks) = 2
    /\ \A i \in 1..Len(chunks) : chunks[i].embedding /\ chunks[i].text
    /\ max_clusters_per_level = 2
    /\ yields = 2
    /\ sumResult = <<>>

\* ---------------------------------------------------------------- C2 ----
RaisingItems == {i \in Submitted : items[i]}

\* C2: when exactly one item's function raises, process_batch does not raise:
\* it returns a dict with the result of every other item and an error
\* indicator under the failing item's identifier.
C2_OneFailureIsIsolated ==
    (bpPc \in {"returned", "raised"} /\ Cardinality(RaisingItems) = 1) =>
        /\ bpPc = "returned"
        /\ \A i \in Submitted : results[i] = IF items[i] THEN "error" ELSE "ok"

\* ---------------------------------------------------------------- C3 ----
OnlyParseFailures == \A i \in 1..Len(outcomes) : outcomes[i] = "parse"

\* C3: an invoke whose every attempt ends in a parse failure keeps attempting
\* until it has made exactly max_retries attempts, then raises the last
\* OutputParserException and attempts nothing more.
C3_ExactlyMaxRetriesAttempts ==
    (invPc # "idle" /\ OnlyParseFailures) =>
        /\ attempts = Len(outcomes)
        /\ attempts <= max_retries
        /\ invPc = "loop" => (attempts < max_retries /\ ENABLED InvokeAttempt("parse"))
        /\ invPc # "loop" =>
              /\ invPc = "raised_parse"
              /\ last_exception = "OutputParserException"
              /\ attempts = max_retries
              /\ ~ENABLED (\E o \in AttemptOutcomes : InvokeAttempt(o))

C3_Witness ==
    /\ invPc = "raised_parse"
    /\ OnlyParseFailures
    /\ max_retries = 3
    /\ attempts = 3

\* ---------------------------------------------------------------- C4 ----
\* C4: an attempt that raises anything but a parse failure is the last one: the
\* exception propagates at once, without a sleep after it, however many parse
\* failures (each followed by one sleep) came before it.
C4_OtherExceptionsPropagateAtOnce ==
    \A i \in 1..Len(outcomes) :
        outcomes[i] \in {"other", "invalid"} =>
            /\ i = Len(outcomes)
            /\ attempts = i
            /\ invPc = (IF outcomes[i] = "invalid" THEN "raised_validation" ELSE "raised_other")
            /\ sleeps = i - 1
            /\ retries = i - 1
            /\ ~ENABLED (\E o \in AttemptOutcomes : InvokeAttempt(o))

C4_Witness ==
    /\ invPc = "raised_other"
    /\ outcomes = <<"parse", "parse", "other">>
    /\ max_retries = 3

\* ------------------------------------------------------- C5 .. C10 ------
\* the fragments of the two acts of the last call and the records of their pair
ChangingChunks == GetForAct(cmpArgs[1])
ChangedChunks == GetForAct(cmpArgs[2])
PairRows == GetByActPair(analysisRows, cmpArgs[1], cmpArgs[2])

\* the article key of the fragment a record refers to
KeyOfChunk(id) == IF id = NoId THEN NoKey ELSE ExtractArticleNumber(actChunks[id].text)

ActOfChunk(id) == actChunks[id].reference_id

\* C5: a compare_acts call on a pair whose analysis was completed by an earlier
\* call runs no analysis, leaves the act_change_analysis table as it found it
\* and returns the records persisted for the pair, whatever their number.
\* (Stated for acts that both have fragments.)
C5_AnalyzedPairIsNeverRecomputed ==
    (cmpPc = "returned" /\ cmpArgs \in analyzed
        /\ ChangingChunks # <<>> /\ ChangedChunks # <<>>) =>
        /\ analyzeRuns = runsBefore
        /\ analysisRows = rowsBefore
        /\ Len(cmpReturn) = Len(PairRows)
        /\ \A i \in 1..Len(cmpReturn) :
              /\ cmpReturn[i].id = PairRows[i].id
              /\ cmpReturn[i].change_type = PairRows[i].change_type

\* C6: after compare_acts, each article key found only in the changing act has
\* exactly one 'appended' record, on a fragment of the changing act and with a
\* null changed fragment id; each key found only in the changed act has exactly
\* one 'removed' record, on a fragment of the changed act and with a null
\* changing fragment id; there is no other 'appended' or 'removed' record.
C6_OneRecordPerUnmatchedKey ==
    cmpPc = "returned" =>
        LET rows == PairRows
            OnlyChanging == MapKeys(ChangingChunks) \ MapKeys(ChangedChunks)
            OnlyChanged == MapKeys(ChangedChunks) \ MapKeys(ChangingChunks)
            Appended == {i \in 1..Len(rows) : rows[i].change_type = "appended"}
            Removed == {i \in 1..Len(rows) : rows[i].change_type = "removed"}
        IN /\ \A i \in Appended :
                 /\ rows[i].changing_chunk_id # NoId
                 /\ rows[i].changed_chunk_id = NoId
                 /\ ActOfChunk(rows[i].changing_chunk_id) = cmpArgs[1]
                 /\ KeyOfChunk(rows[i].changing_chunk_id) \in OnlyChanging
           /\ \A i \in Removed :
                 /\ rows[i].changed_chunk_id # NoId
                 /\ rows[i].changing_chunk_id = NoId
                 /\ ActOfChunk(rows[i].changed_chunk_id) = cmpArgs[2]
                 /\ KeyOfChunk(rows[i].changed_chunk_id) \in OnlyChanged
           /\ \A k \in OnlyChanging :
                 Cardinality({i \in Appended : KeyOfChunk(rows[i].changing_chunk_id) = k}) = 1
           /\ \A k \in OnlyChanged :
                 Cardinality({i \in Removed : KeyOfChunk(rows[i].changed_chunk_id) = k}) = 1

C6_Witness ==
    /\ cmpPc = "returned"
    /\ MapKeys(ChangingChunks) \ MapKeys(ChangedChunks) # {}
    /\ MapKeys(ChangedChunks) \ MapKeys(ChangingChunks) # {}
    /\ \E i \in 1..Len(analysisRows) : analysisRows[i].change_type = "appended"
    /\ \E i \in 1..Len(analysisRows) : analysisRows[i].change_type = "removed"

\* cosine similarity of u and v strictly below 0.985 = 197/200
CosineBelowThreshold(u, v) ==
    LET uv == u[1] * v[1] + u[2] * v[2]
        uu == u[1] * u[1] + u[2] * u[2]
        vv == v[1] * v[1] + v[2] * v[2]
    IN uv < 0 \/ 40000 * uv * uv < 38809 * uu * vv

WellFormedRecord(r) ==
    /\ r.change_type \in {"modified", "appended", "removed"}
    /\ r.change_type = "modified" => (r.changing_chunk_id # NoId /\ r.changed_chunk_id # NoId)
    /\ r.change_type \in {"appended", "removed"} =>
          ((r.changing_chunk_id = NoId) # (r.changed_chunk_id = NoId))

\* C8: every change record, persisted or returned, has one of the three change
\* types; a 'modified' record has both fragment ids, an 'appended' or 'removed'
\* record has exactly one of them null.
C8_RecordsAreWellFormed ==
    /\ \A i \in 1..Len(analysisRows) : WellFormedRecord(analysisRows[i])
    /\ \A i \in 1..Len(cmpReturn) : WellFormedRecord(cmpReturn[i])

C8_Witness ==
    /\ cmpCalls = MaxCalls
    /\ \E i \in 1..Len(analysisRows) : analysisRows[i].change_type = "modified"
    /\ \E i \in 1..Len(analysisRows) : analysisRows[i].change_type = "appended"
    /\ \E i \in 1..Len(analysisRows) : analysisRows[i].change_type = "removed"

\* changing act ["Art. 1. Text A", "Art. 2. Text B"] (fragments 1, 2), changed
\* act ["Art. 1. Text A", "Art. 3. Text C"] (fragments 3, 4), compared
C9_Scenario ==
    /\ actChunks = ChunkTable(<<Art1TextA, Art2TextB>>, <<Art1TextA, Art3TextC>>)
    /\ cmpPc = "returned"
    /\ cmpArgs = <<1, 2>>

\* the fragments a record refers to
RefsOf(r) == {r.changing_chunk_id, r.changed_chunk_id} \ {NoId}

\* C9 as stated: in the scenario exactly two records are yielded, a 'removed'
\* one for Art. 2 and an 'appended' one for Art. 3, none for Art. 1.
C9_RemovedArt2AppendedArt3 ==
    C9_Scenario =>
        /\ Len(cmpReturn) = 2
        /\ \E i \in 1..2 : cmpReturn[i].change_type = "removed" /\ RefsOf(cmpReturn[i]) = {2}
        /\ \E i \in 1..2 : cmpReturn[i].change_type = "appended" /\ RefsOf(cmpReturn[i]) = {4}

\* C9, amended: in the scenario exactly two records are yielded and persisted,
\* an 'appended' one for Art. 2 (the fragment of the changing act, changed id
\* null) and a 'removed' one for Art. 3 (the fragment of the changed act,
\* changing id null), none for Art. 1.
C9_AppendedArt2RemovedArt3 ==
    C9_Scenario =>
        /\ Len(cmpReturn) = 2
        /\ Len(analysisRows) = 2
        /\ \A rs \in {cmpReturn, analysisRows} :
              /\ \E i \in 1..2 :
                    /\ rs[i].change_type = "appended"
                    /\ rs[i].changing_chunk_id = 2
                    /\ rs[i].changed_chunk_id = NoId
              /\ \E i \in 1..2 :
                    /\ rs[i].change_type = "removed"
                    /\ rs[i].changing_chunk_id = NoId
                    /\ rs[i].changed_chunk_id = 4
        /\ \E i \in 1..2 : cmpReturn[i].changing_chunk_text = Art2TextB.text
        /\ \E i \in 1..2 : cmpReturn[i].changed_chunk_text = Art3TextC.text

C9_Witness ==
    /\ C9_Scenario
    /\ cmpCalls = 1
    /\ Len(cmpReturn) = 2

\* C10: a compare_acts call on two acts without a recorded change link fails
\* with an error: it runs no alignment and persists nothing.
C10_UnrelatedActsAreRejected ==
    (cmpPc # "idle" /\ cmpArgs \notin links) =>
        /\ cmpPc = "raised"
        /\ analyzeRuns = runsBefore
        /\ analysisRows = rowsBefore

\* ------------------------------------------------------ C11 .. C13 ------
\* the stored impact records of the pair of the last analyze_impact call, before
\* and after it
ImpactsBefore == ImpactGetByActPair(impRowsBefore, impArgs[1], impArgs[2])
ImpactsAfter == ImpactGetByActPair(impactRows, impArgs[1], impArgs[2])

\* what identifies an impact record: change record, document fragment, relevancy
\* and justification
ImpactKey(m) == <<m.change_analysis_id, m.doc_chunk_id, m.relevancy, m.justification>>

ReturnedImpacts ==
    UNION {{ImpactKey(m) : m \in impReturn[i].impacts} : i \in 1..Len(impReturn)}

\* C11: an analyze_impact call that finds impact records stored for the pair
\* dispatches no LLM request, runs no nearest-neighbour search, leaves the
\* stored impact records as they were and returns exactly those records, each
\* under the change record it belongs to.
C11_ExistingImpactsAreReturnedUntouched ==
    (impPc # "idle" /\ ImpactsBefore # {}) =>
        /\ impPc = "returned"
        /\ impRequests = <<>>
        /\ impSearches = <<>>
        /\ impactRows = impRowsBefore
        /\ ReturnedImpacts = {ImpactKey(m) : m \in ImpactsBefore}
        /\ \A i \in 1..Len(impReturn) :
              \A m \in impReturn[i].impacts : m.change_analysis_id = impReturn[i].id

\* a second call on a pair whose first call stored ten impact records
C11_Witness ==
    /\ impPc = "returned"
    /\ impCalls = 2
    /\ Cardinality(ImpactsBefore) = 10
    /\ Len(impReturn) = 2

\* the requests of the last call that failed, and those that were answered
FailedRequests == {k \in DOMAIN impResponses : impResponses[k].status = "exc"}
AnsweredRequests == {k \in DOMAIN impResponses : impResponses[k].status = "ok"}

\* C12: when the relevance request of one pair fails while others of the same
\* wave are answered, analyze_impact still returns, and an impact record is
\* stored for every answered request.
C12_OneFailingPairIsIsolated ==
    (impPc # "idle" /\ FailedRequests # {} /\ AnsweredRequests # {}) =>
        /\ impPc = "returned"
        /\ \A k \in AnsweredRequests :
              \E m \in ImpactsAfter : m.change_analysis_id = k[1] /\ m.doc_chunk_id = k[2]

\* the change records of the pair of the last call
ImpactAnalyses == GetByActPair(analysisRows, impArgs[1], impArgs[2])

\* C13: a call that finds change records and no impact records dispatches
\* exactly one request per (change record, candidate fragment) pair, at most 5
\* candidates per change record, and stores exactly one impact record per
\* answered request: with the ids of the request key and the relevancy and
\* justification of its response, as reported.
C13_OneRecordPerAnsweredRequest ==
    (impPc # "idle" /\ ImpactsBefore = {} /\ ImpactAnalyses # <<>>) =>
        /\ \A i, j \in 1..Len(impRequests) : impRequests[i] = impRequests[j] => i = j
        /\ \A i \in 1..Len(ImpactAnalyses) :
              LET cands == {k \in DOMAIN impResponses : k[1] = ImpactAnalyses[i].id}
              IN /\ Cardinality(cands) = Min(5, Len(docChunks))
                 /\ \A k \in cands : k[2] \in 1..Len(docChunks)
        /\ \A k \in DOMAIN impResponses : \E i \in 1..Len(ImpactAnalyses) : k[1] = ImpactAnalyses[i].id
        /\ {impRequests[i] : i \in 1..Len(impRequests)} = DOMAIN impResponses
        /\ {ImpactKey(m) : m \in impactRows \ impRowsBefore} =
              {<<k[1], k[2], impResponses[k].relevancy, impResponses[k].justification>> :
                  k \in AnsweredRequests}

\* the part of C13 that concerns calls whose requests were all answered
C13_WhenAllAnswered ==
    FailedRequests = {} => C13_OneRecordPerAnsweredRequest

(***************************************************************************)
(* C14 .. C18: the recursive summarization driven by ClustersService       *)
(***************************************************************************)
Completed == driver = "service" /\ sumPc = "returned" /\ sumResult # <<>>

Parentless == {i \in 1..Len(clusterRows) : clusterRows[i].parent_cluster_id = NoId}

ParentsOf(i) ==
    {j \in 1..Len(clusterRows) :
        /\ clusterRows[j].id = clusterRows[i].parent_cluster_id
        /\ clusterRows[j].level = clusterRows[i].level + 1}

\* C14: once a recursive summarization of an act has completed, exactly one
\* persisted node has no parent (the root) and every other persisted node has
\* as parent_cluster_id the id of exactly one persisted node one level above it.
C14_PersistedNodesFormOneTree ==
    Completed =>
        /\ Cardinality(Parentless) = 1
        /\ \A i \in (1..Len(clusterRows)) \ Parentless : Cardinality(ParentsOf(i)) = 1

\* what the code does instead: no persisted node is ever given a parent
EveryPersistedNodeIsParentless ==
    driver = "service" => Parentless = 1..Len(clusterRows)

\* the rows bulk_create wrote for the list yielded at level lvl, in insertion order
RowsOfLevel(lvl) ==
    LET Test(r) == r.level = lvl
    IN SelectSeq(clusterRows, Test)

\* rows are the persisted copies of the yielded list cl: one row per node, in
\* order, each with an id and with the node's level and text
PersistedCopies(rows, cl) ==
    /\ Len(rows) = Len(cl)
    /\ \A i \in 1..Len(cl) :
          /\ rows[i].id # NoId
          /\ rows[i].level = cl[i].level
          /\ rows[i].text = cl[i].text

\* C15: levels are strictly sequential.  While the generator is suspended on
\* the list of level n, the clusterer and the LLM have been called for the
\* levels 0..n only; driven by ClustersService, every yielded list is persisted
\* by exactly one bulk_create before the generator is resumed, and the list
\* sent back, from which the next level is built, is made of the persisted
\* copies with their ids.
C15_LevelsAreSequentialAndPersistedOnce ==
    /\ sumPc = "suspended" =>
          /\ level = yields - 1
          /\ clusterings = yields
          /\ llmBatches <= yields
    /\ driver = "service" =>
          /\ bulkCreates = (IF sumPc = "suspended" THEN yields - 1 ELSE yields)
          /\ \A n \in 1..bulkCreates : PersistedCopies(RowsOfLevel(n - 1), history[n])
          /\ \A i \in 1..Len(clusterRows) :
                /\ clusterRows[i].id = i
                /\ clusterRows[i].level \in 0..(bulkCreates - 1)
          /\ bulkCreates > 0 =>
                /\ Len(sent) = Len(history[bulkCreates])
                /\ \A i \in 1..Len(sent) :
                      /\ sent[i].id \in 1..Len(clusterRows)
                      /\ clusterRows[sent[i].id].level = bulkCreates - 1
                      /\ clusterRows[sent[i].id].text = history[bulkCreates][i].text
                      /\ \A j \in 1..Len(sent) : sent[j].id = sent[i].id => j = i

\* two levels were yielded, persisted and sent back, and a node was returned
C15_Witness ==
    /\ Completed
    /\ yields = 2
    /\ bulkCreates = 2
    /\ Len(RowsOfLevel(0)) >= 2
    /\ Len(RowsOfLevel(1)) = 1
    /\ sent = <<sumResult[1]>>

\* summarize was given exactly one fragment and got to a yield or to its return
OneFragmentRun == Len(chunks) = 1 /\ sumPc \in {"suspended", "returned"}

\* one list was yielded, holding one level-0 node, and on resumption that node
\* was returned at once: no level-1 node, no second clustering or LLM call
OneNodeOutcome ==
    /\ yields = 1
    /\ Len(history) = 1
    /\ Len(history[1]) = 1
    /\ history[1][1].level = 0
    /\ clusterings = 1
    /\ llmBatches <= 1
    /\ level = 0
    /\ \A i \in 1..Len(clusterRows) : clusterRows[i].level = 0
    /\ sumPc = "returned" =>
          /\ sumResult # <<>>
          /\ sumResult[1].level = 0
          /\ sumResult[1].text = history[1][1].text
          /\ sumResult = sent

\* C16 as stated: for an input of exactly one fragment the generator yields
\* exactly one list holding exactly one level-0 node and, on resumption, returns
\* that node at once.
C16_OneFragmentOneNode ==
    OneFragmentRun => OneNodeOutcome

\* C16, amended: that is so when the fragment has an embedding; when it has
\* none, the one yielded list is empty and the generator returns no node.
C16_OneEmbeddedFragmentOneNode ==
    OneFragmentRun =>
        IF chunks[1].embedding
           THEN OneNodeOutcome
           ELSE /\ yields = 1
                /\ history = <<(<<>>)>>
                /\ clusterings = 1
                /\ llmBatches = 0
                /\ sumPc = "returned" => sumResult = <<>>

C16_Witness ==
    /\ Len(chunks) = 1
    /\ chunks[1].embedding
    /\ chunks[1].text
    /\ max_clusters_per_level > 1
    /\ driver = "service"
    /\ sumPc = "returned"
    /\ sumResult # <<>>
    /\ llmBatches = 1

\* the level-0 list has just been yielded
LevelZeroYielded == sumPc = "suspended" /\ yields = 1

\* the joined text of the members of a level-0 node is not empty
HasMemberText(node) == \E m \in 1..Len(node.chunks) : chunks[node.chunks[m]].text

\* C17: at level 0 a group whose concatenated member text is empty (a group
\* without members included) produces no node in the yielded list: the list
\* holds exactly the groups a summary was requested for.
C17_TextlessGroupsYieldNoNode ==
    LevelZeroYielded =>
        /\ Len(yielded) = Len(requested)
        /\ \A i \in 1..Len(yielded) : HasMemberText(yielded[i])

\* what does hold: a summary is requested for the groups with a member text and
\* for no other, and every group of the clusterer is in the yielded list
OnlyGroupsWithTextAreRequested ==
    LevelZeroYielded =>
        /\ Len(requested) = Cardinality({i \in 1..Len(yielded) : HasMemberText(yielded[i])})
        /\ \A p \in 1..Len(requested) : HasMemberText(yielded[requested[p]])
        /\ \A i \in 1..Len(chunks) :
              AllEmbedded => \E c \in 1..Len(yielded) :
                                \E m \in 1..Len(yielded[c].chunks) : yielded[c].chunks[m] = i

\* some level of the reduction came out with zero nodes
ZeroNodeLevel == \E n \in 1..Len(history) : history[n] = <<>>

\* C18: when some level of the reduction has zero resulting nodes, the
\* summarizer ends without a final node; generate_act_summary then returns no
\* result and leaves the act's stored summary and flag as they were.
C18_ZeroNodeLevelLeavesActUntouched ==
    ZeroNodeLevel =>
        /\ sumPc \in {"suspended", "returned"}
        /\ sumPc = "returned" => sumResult = <<>>
        /\ driver = "service" =>
              /\ actRow = actBefore
              /\ genReturn = (IF sumPc = "returned" THEN "None" ELSE "running")

\* an act summarized before, whose level 1 came out empty after level 0 was persisted
C18_Witness ==
    /\ driver = "service"
    /\ sumPc = "returned"
    /\ Len(history) = 2
    /\ history[2] = <<>>
    /\ clusterRows # <<>>
    /\ actBefore = ActRow(OldText, "old")
    /\ genReturn = "None"

(***************************************************************************)
(* C19, C20: EmbeddingSemanticClusterer.cluster                            *)
(***************************************************************************)
\* the list cluster was called on is empty or has an item without embedding
NothingUsable == Len(clBefore) = 0 \/ \E i \in 1..Len(clBefore) : ~clBefore[i].embedding

\* C19: cluster returns an empty list, without raising and without modifying
\* its input, when the item list is empty or at least one item lacks an embedding.
C19_NoClustersWithoutEmbeddings ==
    (clPc # "idle" /\ NothingUsable) =>
        /\ clPc = "returned"
        /\ clPath = "empty"
        /\ clResult = <<>>
        /\ clItems = clBefore
        /\ clNumClusters = DefaultNumClusters

\* three items, the second without embedding
C19_Witness ==
    /\ clPc = "returned"
    /\ Len(clBefore) = 3
    /\ clBefore[1].embedding
    /\ ~clBefore[2].embedding
    /\ clArg = 2
    /\ clResult = <<>>

\* C20: when there are fewer items than the requested number of clusters,
\* cluster performs no centroid clustering: it takes the equal-split branch,
\* which for len(items) < k gives one group per item, group i holding item i
\* (five singleton groups for five items and k = 8).
C20_FewerItemsThanClustersAreSplit ==
    (clPc = "returned" /\ ~NothingUsable /\ Len(clBefore) < clArg) =>
        /\ clPath = "split"
        /\ clResult = [i \in 1..Len(clBefore) |-> <<i>>]

\* what the code does instead: num_clusters is capped first, so the equal-split
\* branch is never taken and KMeans runs with one cluster per item
SplitBranchIsNeverTaken ==
    /\ clPath # "split"
    /\ (clPc = "returned" /\ ~NothingUsable) =>
          /\ clPath = "kmeans"
          /\ clNumClusters = Min(clArg, Len(clBefore))
          /\ Len(clResult) = clNumClusters

\* the clusters of clResult that hold item i, counted with multiplicity
HoldersOf(i) ==
    {<<c, m>> \in (1..Len(clResult)) \X (1..Len(clBefore)) :
        m <= Len(clResult[c]) /\ clResult[c][m] = i}

\* C21: for a non-empty list in which every item has an embedding, cluster
\* returns exactly min(k, len(items)) cluster objects (empty ones allowed) whose
\* member lists partition the input: every item is in exactly one cluster,
\* exactly once, and the members of a cluster are in input order.
C21_ClustersPartitionTheInput ==
    (clPc = "returned" /\ ~NothingUsable) =>
        /\ Len(clResult) = Min(clArg, Len(clBefore))
        /\ \A i \in 1..Len(clBefore) : Cardinality(HoldersOf(i)) = 1
        /\ \A c \in 1..Len(clResult) :
              /\ \A m \in 1..Len(clResult[c]) : clResult[c][m] \in 1..Len(clBefore)
              /\ \A m \in 1..(Len(clResult[c]) - 1) : clResult[c][m] < clResult[c][m + 1]

\* five items in three clusters, one of them empty, one with non-adjacent members
C21_Witness ==
    /\ clPc = "returned"
    /\ Len(clBefore) = 5
    /\ clArg = 3
    /\ clResult = << <<1, 3, 5>>, <<>>, <<2, 4>> >>

(***************************************************************************)
(* C22: the life cycle of the pool of a BatchProcessor                     *)
(***************************************************************************)
\* the last call was the method op and nothing has been called since
LastCall(op) == bpCall.op = op /\ bpPc # "collecting"

C22_WitnessAfterStop ==
    /\ LastCall("submit")
    /\ bpCall.outcome = "RuntimeError"
    /\ poolsCreated = 1
    /\ tasks = <<"done">>

(***************************************************************************)
(* C23 .. C25: the nodes and levels the summarizer yields                  *)
(***************************************************************************)
\* the yielded node built for the p-th group a summary was requested for: at
\* level 0 every group has a node, above only the requested ones have
NodeOfRequest(p) == IF level = 0 THEN yielded[requested[p]] ELSE yielded[p]

\* the batch key of the p-th request: str(idx) of the group's enumerate index
KeyOfRequest(p) == requested[p] - 1

\* C23: at every level, the text (and flag) of each yielded node is that of the
\* LLM response to the request built from the node's own group: no node gets the
\* response of another group and no requested node is left without response,
\* also when empty or textless groups lie between the others.
C23_EveryNodeGetsItsOwnResponse ==
    sumPc = "suspended" =>
        \A p \in 1..Len(requested) : NodeOfRequest(p).text = KeyOfRequest(p)

\* what does hold: the responses are right when no group before a requested one
\* was skipped, i.e. when the requested groups are the first groups of the clusterer
RequestsAreLeading == \A p \in 1..Len(requested) : requested[p] = p

ResponsesRightWhenNoGroupSkipped ==
    (sumPc = "suspended" /\ RequestsAreLeading) =>
        \A p \in 1..Len(requested) : NodeOfRequest(p).text = KeyOfRequest(p)

\* a list of a reduction level (n >= 1) has just been yielded; `sent` is the
\* list of current nodes it was built from
ReductionLevelYielded == sumPc = "suspended" /\ level >= 1

\* C24: at reduction level n >= 1 with c > 1 current nodes, the summarizer
\* asks the clusterer for exactly 1 group when c <= 3 and otherwise for
\* max(1, floor(max_clusters_per_level / 2^n)) groups, and every node it
\* yields for that level has level = n and the parent entity's reference_id.
C24_GroupsAskedAndNodeFields ==
    ReductionLevelYielded =>
        /\ Len(sent) > 1
        /\ asked = (IF Len(sent) <= 3 THEN 1
                    ELSE Max(1, max_clusters_per_level \div Pow2(level)))
        /\ \A i \in 1..Len(yielded) :
              /\ yielded[i].level = level
              /\ yielded[i].reference_id = reference_id

\* four current nodes and max_clusters_per_level 4: two groups asked for at
\* level 1, two nodes yielded
C24_Witness ==
    /\ ReductionLevelYielded
    /\ level = 1
    /\ Len(sent) = 4
    /\ max_clusters_per_level = 4
    /\ asked = 2
    /\ Len(yielded) = 2
    /\ reference_id = 2

\* three current nodes: one group asked for although max_clusters_per_level / 2 is 2
C24_WitnessFewNodes ==
    /\ ReductionLevelYielded
    /\ level = 1
    /\ Len(sent) = 3
    /\ max_clusters_per_level = 4
    /\ asked = 1

\* C25: with the default max_clusters_per_level = 8 and a caller that sends
\* back lists as long as the yielded ones, summarize yields at most 4 levels
\* (levels 0 to 3) whatever the number of fragments, and the list yielded for a
\* level n >= 1 has at most max(1, 8 / 2^n) nodes.
C25_AtMostFourLevels ==
    /\ Len(lvCounts) <= 4
    /\ lvLevel <= 3
    /\ \A y \in 2..Len(lvCounts) : lvCounts[y] <= Max(1, 8 \div Pow2(y - 1))

\* more fragments than clusters: 8, 4, 2 and 1 nodes, then the return
C25_Witness ==
    /\ lvPc = "returned"
    /\ lvFragments > 8
    /\ lvCounts = <<8, 4, 2, 1>>
    /\ lvLevel = 3

\* the node-level model agrees with the counts used for C25: level 0 has as many
\* nodes as the clusterer has cluster objects, or none; a reduction level has at
\* most min(asked, number of current nodes) nodes
CountsAgreeWithNodes ==
    sumPc = "suspended" =>
        IF level = 0
           THEN Len(yielded) \in {0, Min(max_clusters_per_level, Len(chunks))}
           ELSE Len(yielded) <= Min(asked, Len(sent))

(***************************************************************************)
(* C26: output that does not match the response schema                     *)
(***************************************************************************)
\* every attempt so far failed on the LLM output: it could not be parsed, or it
\* was parsed and did not match the response schema
OnlyOutputFailures ==
    \A i \in 1..Len(outcomes) : outcomes[i] \in {"parse", "invalid"}

\* C26: output that does not match the response schema is treated like output
\* that cannot be parsed: invoke retries up to max_retries times, with the delay
\* between attempts, and only then surfaces the error.
C26_SchemaMismatchIsRetried ==
    (invPc \in InvokeTerminal /\ outcomes # <<>> /\ OnlyOutputFailures) =>
        /\ attempts = max_retries
        /\ sleeps = max_retries - 1

\* what the code does: the first output that does not match the schema ends the call
SchemaMismatchEndsTheCall ==
    \A i \in 1..Len(outcomes) :
        outcomes[i] = "invalid" => (i = Len(outcomes) /\ invPc = "raised_validation")

(***************************************************************************)
(* C27 .. C29: fragments without key, concurrent calls, shared keys        *)
(***************************************************************************)
\* the fragments whose text has no article number at its start
Keyless == {i \in 1..Len(actChunks) : ExtractArticleNumber(actChunks[i].text) = NoKey}

\* C27: a fragment whose text has no extractable article-number key is left out
\* of the alignment: no change record refers to it, as changing or as changed
\* fragment, and it is never matched with a fragment of the other act.
C27_KeylessFragmentsAreLeftOut ==
    \A i \in 1..Len(analysisRows) :
        /\ RefsOf(analysisRows[i]) \cap Keyless = {}
        /\ analysisRows[i].change_type = "modified" =>
              KeyOfChunk(analysisRows[i].changing_chunk_id) =
                 KeyOfChunk(analysisRows[i].changed_chunk_id)

\* the changing act has a fragment without key, the other act has none, and
\* two records were written for the fragments with a key
C27_Witness ==
    /\ cmpPc = "returned"
    /\ \E i \in Keyless : actChunks[i].reference_id = cmpArgs[1]
    /\ \A i \in Keyless : actChunks[i].reference_id = cmpArgs[1]
    /\ Len(ChangedChunks) > 0
    /\ Len(analysisRows) = 2

\* the article key a change record is about: the key of the fragment(s) it refers to
RecordKey(r) ==
    IF r.changing_chunk_id # NoId THEN KeyOfChunk(r.changing_chunk_id)
                                  ELSE KeyOfChunk(r.changed_chunk_id)

BothReturned == \A t \in Threads : thPc[t] = "returned"

\* C28: under every interleaving of two compare_acts calls for the same act
\* pair that had no analysis yet, the persisted change records hold no
\* duplicates: at most one record per article key.
C28_ConcurrentCallsPersistNoDuplicates ==
    BothReturned =>
        \A i, j \in 1..Len(analysisRows) :
            RecordKey(analysisRows[i]) = RecordKey(analysisRows[j]) => i = j

\* a call that reads after the other call has persisted writes nothing
SerialCallsPersistOnce ==
    \A t \in Threads :
        thPc[t] = "returned" /\ AlreadyAnalyzed(thSeen[t]) =>
            thReturn[t] = EnrichAnalysisWithText(thSeen[t])

\* the text of an act whose fragments are chs: the fragments, a blank between them
RECURSIVE JoinTexts(_)
JoinTexts(chs) ==
    IF chs = <<>> THEN <<>>
    ELSE IF Len(chs) = 1 THEN chs[1].text
    ELSE chs[1].text \o <<" ">> \o JoinTexts(Tail(chs))

\* the fragment lists of the compared acts are what chunk_by_articles makes of an
\* act's text, lists with several fragments under one article key included
StoredFragmentsAreChunkerOutput ==
    \A a \in Acts :
        (\A i \in 1..Len(GetForAct(a)) : ExtractArticleNumber(GetForAct(a)[i].text) # NoKey) =>
            ChunkByArticles(JoinTexts(GetForAct(a))) =
                [i \in 1..Len(GetForAct(a)) |-> GetForAct(a)[i].text]

\* the fragments the common-article loop of _analyze_changes compares with each other
AlignedChunks ==
    {MapGet(ChangingChunks, art).id : art \in MapKeys(ChangingChunks) \cap MapKeys(ChangedChunks)}
    \cup {MapGet(ChangedChunks, art).id : art \in MapKeys(ChangingChunks) \cap MapKeys(ChangedChunks)}

Keyed == {i \in 1..Len(actChunks) : ExtractArticleNumber(actChunks[i].text) # NoKey}

\* C29: after compare_acts has analyzed a pair, every fragment of the two acts
\* that has an article key was either compared with the fragment of the other
\* act bearing the same key or is referred to by an appended / removed record,
\* also when several fragments of one act bear the same key.
C29_EveryKeyedFragmentIsAccountedFor ==
    cmpPc = "returned" =>
        \A i \in Keyed :
            \/ i \in AlignedChunks
            \/ \E n \in 1..Len(analysisRows) : i \in RefsOf(analysisRows[n])

\* it holds whenever no two fragments of one act bear the same key
AccountedForWhenKeysAreUnique ==
    (/\ cmpPc = "returned"
     /\ \A i, j \in Keyed :
            ActOfChunk(i) = ActOfChunk(j) /\ KeyOfChunk(i) = KeyOfChunk(j) => i = j)
    => \A i \in Keyed :
            \/ i \in AlignedChunks
            \/ \E n \in 1..Len(analysisRows) : i \in RefsOf(analysisRows[n])

(***************************************************************************)
(* C30: analyze_impact, the computing call against the reading call        *)
(***************************************************************************)
\* the last call read back the impact records that the call before it had
\* computed and persisted
ReadBackAfterComputing ==
    /\ impPc = "returned"
    /\ impCalls = 2
    /\ ImpactsBefore # {}

\* an enriched result with the ids of its impact entries blanked
WithoutImpactIds(enriched) ==
    [i \in 1..Len(enriched) |->
        [enriched[i] EXCEPT !.impacts = {[m EXCEPT !.id = NoId] : m \in enriched[i].impacts}]]

\* C30: the enriched result of the call that computed and persisted the impact
\* records of a pair is the result of a later call that reads them back: one
\* entry per change record, with the same impact ids, relevancies,
\* justifications and document fragment texts.
C30_ComputedResultIsTheStoredResult ==
    ReadBackAfterComputing => impReturn = impReturnBefore

\* the two results agree in everything but the ids of the impact entries
ResultsAgreeApartFromImpactIds ==
    ReadBackAfterComputing =>
        /\ Len(impReturn) = Len(ImpactAnalyses)
        /\ WithoutImpactIds(impReturn) = WithoutImpactIds(impReturnBefore)

\* the computing call returns its impact entries without id, the reading call
\* with the ids of the stored rows
ComputingCallReturnsNoImpactIds ==
    ReadBackAfterComputing =>
        /\ \A i \in 1..Len(impReturnBefore) : \A m \in impReturnBefore[i].impacts : m.id = NoId
        /\ \A i \in 1..Len(impReturn) : \A m \in impReturn[i].impacts : m.id # NoId

====
